---- MODULE Spec2Model ----
(***************************************************************************)
(* Event-stream parsers and scorers of the fmm experiment scripts.        *)
(*                                                                         *)
(*   parse_run          research/exp15/parse-results.py                    *)
(*   parse_run          research/exp15-isolated/compare-isolated.py        *)
(*   parse_jsonl        research/exp16-cost/score.py                       *)
(*   parse_stream_json  research/exp17-cli/score.py                        *)
(*   score_exact_path   research/exp16-cost/score.py, exp17-cli/score.py   *)
(*                                                                         *)
(* Python strings are sequences of one-character strings, so that `in`,    *)
(* startswith, strip, replace and lower are computed as Python computes    *)
(* them.  One stream is fed line by line to the four parsers in lockstep.  *)
(***************************************************************************)
EXTENDS Integers, Sequences, FiniteSets, TLC

VARIABLES
    lines,      \* the names of the lines of the stream read so far, in order
    pc,         \* per parser: "run" (in the loop), "error" (uncaught exception), "done" (returned)
    m15,        \* exp15 parse_run: the metrics dict
    m15i,       \* exp15-isolated parse_run: the metrics dict
    m16,        \* exp16 parse_jsonl: its locals
    m17,        \* exp17 parse_stream_json: its locals
    m18,        \* exp18 parse_stream_json: the metrics dict
    ret15,      \* the values returned by exp15 parse_run (a sequence: empty until it returns)
    ret15i,     \* the values returned by exp15-isolated parse_run
    ret16,      \* the values returned by parse_jsonl
    ret17,      \* the values returned by parse_stream_json
    ret18,      \* the values returned by exp18 parse_stream_json
    answer,     \* scorer input: the answer text
    truth,      \* scorer input: the ground-truth path
    score16,    \* results of exp16 score_exact_path (a sequence: empty until scored)
    score17,    \* results of exp17 score_exact_path
    task,       \* score_result input: the task (scoring tag and ground truth)
    result16,   \* results of exp16 score_result (a sequence: empty until scored)
    result17,   \* results of exp17 score_result
    data,       \* the dataset {condition: {task: [metrics]}} of load_dataset
    averages,   \* results of compute_averages (a sequence: empty until computed)
    stats,      \* results of compute_stats
    a_runs,     \* the runs of the baseline (condition A, control)
    b_runs,     \* the runs of the treatment (condition B, isolated)
    deltas,     \* the percentage deltas computed so far, by computation
    files,      \* the lines of each result file
    fstate,     \* each result file: "todo", "skipped", "open", "raised" or "done"
    workers,    \* each invocation slot of parse_run: its file, position and locals
    hlines,     \* harness: the names of the lines of the stream read so far
    hpc,        \* harness: "run" (in the loop), "error" (uncaught exception), "done"
    hm,         \* harness: the locals of the script
    hret,       \* harness: the result written (a sequence: empty until it is written)
    rfiles,     \* scoring loop: the result files still to visit, in the loop's order
    rseen,      \* scoring loop: the result files visited, in order
    results16,  \* exp16 main: results, {condition: {key: scored run}}
    results17   \* exp17 main: results

vars == <<lines, pc, m15, m15i, m16, m17, m18, ret15, ret15i, ret16, ret17, ret18,
          answer, truth, score16, score17, task, result16, result17,
          data, averages, stats, a_runs, b_runs, deltas,
          files, fstate, workers, hlines, hpc, hm, hret,
          rfiles, rseen, results16, results17>>

parserVars == <<lines, pc, m15, m15i, m16, m17, m18, ret15, ret15i, ret16, ret17, ret18>>

scorerVars == <<answer, truth, score16, score17>>

taskVars == <<task, result16, result17>>

\* The variables of the state machines other than the parsers and score_exact_path
aggVars == <<data, averages, stats>>

deltaVars == <<a_runs, b_runs, deltas>>

loadVars == <<files, fstate, workers>>

harnessVars == <<hlines, hpc, hm, hret>>

mainVars == <<rfiles, rseen, results16, results17>>

restVars == <<taskVars, aggVars, deltaVars, loadVars, harnessVars, mainVars>>

-----------------------------------------------------------------------------
(* Bounds *)

\* Number of lines of a stream.
MaxLines == 3

\* Length of the answer and truth strings handed to the scorers.
MaxStrLen == 3

\* Number of expected items of a set_match task.
MaxItems == 2

\* Bits of the significand of a float (a Python float has 53).
MantBits == 7

\* Number of runs in a dataset.
MaxRuns == 3

\* Number of runs on each side of a comparison.
MaxDeltaRuns == 2

\* Number of lines in a result file.
MaxFileLines == 2

\* Number of invocations of parse_run that may be in progress at once.
MaxWorkers == 2

\* Number of lines in a stream read by the harness script.
MaxHarnessLines == 3

-----------------------------------------------------------------------------
(* Python str operations on sequences of characters *)

\* c in string.whitespace, as str.strip() with no argument strips it
IsSpace(c) == c \in {" ", "\t", "\n"}

\* str.lower() on one character (the upper-case letters that occur in the model)
LowerChar(c) ==
    CASE c = "R" -> "r" [] c = "G" -> "g" [] c = "B" -> "b" [] c = "E" -> "e"
      [] c = "F" -> "f" [] c = "I" -> "i" [] c = "M" -> "m"
      [] OTHER -> c

\* s.lower()
Lower(s) == [i \in 1..Len(s) |-> LowerChar(s[i])]

\* s.startswith(p)
StartsWith(s, p) == Len(p) <= Len(s) /\ SubSeq(s, 1, Len(p)) = p

\* sub in s
Contains(s, sub) ==
    \E i \in 0..(Len(s) - Len(sub)) : SubSeq(s, i + 1, i + Len(sub)) = sub

RECURSIVE LStripSet(_, _)
\* s.lstrip(chars)
LStripSet(s, chars) ==
    IF s # <<>> /\ Head(s) \in chars THEN LStripSet(Tail(s), chars) ELSE s

RECURSIVE RStripSet(_, _)
\* s.rstrip(chars)
RStripSet(s, chars) ==
    IF s # <<>> /\ s[Len(s)] \in chars
    THEN RStripSet(SubSeq(s, 1, Len(s) - 1), chars)
    ELSE s

\* s.strip(chars)
StripSet(s, chars) == RStripSet(LStripSet(s, chars), chars)

\* s.strip()
Strip(s) == StripSet(s, {" ", "\t", "\n"})

RECURSIVE Replace(_, _, _)
\* s.replace(old, new) for non-empty old: non-overlapping occurrences, left to right
Replace(s, old, new) ==
    IF Len(s) < Len(old) THEN s
    ELSE IF SubSeq(s, 1, Len(old)) = old
         THEN new \o Replace(SubSeq(s, Len(old) + 1, Len(s)), old, new)
         ELSE <<Head(s)>> \o Replace(Tail(s), old, new)

-----------------------------------------------------------------------------
(* JSON values as the parsers see them *)

\* A key that is absent from a JSON object, for a numeric field: dict.get returns its default.
NONE == -1

\* A key that is absent from a JSON object, for a string field.
MissingStr == <<"<missing>">>

\* The JSON value null where a string is expected: it decodes to None
NullStr == <<"<null>">>

\* d.get(key, default)
Get(v, default) == IF v = NONE THEN default ELSE v

\* d.get(key, default) for a string field
GetStr(v, default) == IF v = MissingStr THEN default ELSE v

\* The fixed manifest-path marker
MANIFEST_MARKER == <<".", "f", "m", "m", "/", "i", "n", "d", "e", "x", ".", "j", "s", "o", "n">>

N_Read == <<"R", "e", "a", "d">>
N_Glob == <<"G", "l", "o", "b">>
N_Grep == <<"G", "r", "e", "p">>
N_Bash == <<"B", "a", "s", "h">>
PFX_MCP == <<"m", "c", "p", "_", "_", "f", "m", "m", "_", "_">>
PFX_FMM == <<"f", "m", "m", "_">>
K_manifest == <<"m", "a", "n", "i", "f", "e", "s", "t">>
K_index == <<"i", "n", "d", "e", "x">>
K_fmm == <<"f", "m", "m">>
K_fmm_sp == <<"f", "m", "m", " ">>

\* Tool names, paths, commands and texts that occur in the modelled streams
N_McpIndex == <<"m", "c", "p", "_", "_", "f", "m", "m", "_", "_", "i", "n", "d", "e", "x">>
N_McpFind == <<"m", "c", "p", "_", "_", "f", "m", "m", "_", "_", "f", "i", "n", "d">>
N_FmmManifest == <<"f", "m", "m", "_", "m", "a", "n", "i", "f", "e", "s", "t">>
N_Edit == <<"E", "d", "i", "t">>
P_src == <<"a", ".", "t", "s">>
P_fmmdir == <<"f", "m", "m", "/", "i", "n", "d", "e", "x", ".", "t", "s">>
P_dir == <<"s", "r", "c">>
N_View == <<"V", "i", "e", "w">>
P_sidecar == <<"a", ".", "t", "s", ".", "f", "m", "m">>
C_fmm == <<"f", "m", "m", " ", "l", "s">>
C_cat == <<"c", "a", "t", " ", ".", "f", "m", "m", "/", "i", "n", "d", "e", "x", ".", "j", "s", "o", "n">>
T_answer == <<"b", ".", "t", "s">>
T_marker == <<"s", "e", "e", " ", ".", "f", "m", "m", "/", "i", "n", "d", "e", "x", ".", "j", "s", "o", "n">>
T_final == <<"a", ".", "t", "s">>
R_ok == <<"o", "k">>

\* A usage object; an absent usage object reads as one with every key absent
Usage(i, o, cr, cc) ==
    [input_tokens |-> i, output_tokens |-> o,
     cache_read_input_tokens |-> cr, cache_creation_input_tokens |-> cc]

NoUsage == Usage(NONE, NONE, NONE, NONE)

\* A tool input object
Input(fp, cmd, path) == [file_path |-> fp, command |-> cmd, path |-> path]

NoInput == Input(MissingStr, MissingStr, MissingStr)

\* Content blocks: json = "obj" is a JSON object, json = "str" any other JSON value
Block(type, name, input, text, content) ==
    [json |-> "obj", type |-> type, name |-> name, input |-> input,
     text |-> text, content |-> content]

ToolUse(name, input) == Block("tool_use", name, input, MissingStr, MissingStr)

TextBlock(text) == Block("text", MissingStr, NoInput, text, MissingStr)

ToolResult(content) == Block("tool_result", MissingStr, NoInput, MissingStr, content)

StrBlock == [Block("", MissingStr, NoInput, MissingStr, MissingStr) EXCEPT !.json = "str"]

\* One line of the stream.  json: "blank" (empty after strip), "garbage" (json.loads
\* raises JSONDecodeError), "nonobj" (decodes to a value that is not an object),
\* "obj" (decodes to an object with the fields below; type "" is an absent type).
BaseEvent ==
    [json |-> "obj", type |-> "", subtype |-> "",
     has_meta |-> FALSE, meta_duration_ms |-> NONE,
     message |-> [content |-> <<>>, usage |-> NoUsage],
     usage |-> NoUsage, total_cost_usd |-> NONE, num_turns |-> NONE,
     duration_ms |-> NONE, result |-> MissingStr,
     mcp_servers |-> <<>>, skills |-> <<>>, permission_denials |-> 0,
     modelUsage |-> <<>>]

Assistant(content, usage) ==
    [BaseEvent EXCEPT !.type = "assistant",
                      !.message = [content |-> content, usage |-> usage]]

User(content) ==
    [BaseEvent EXCEPT !.type = "user",
                      !.message = [content |-> content, usage |-> NoUsage]]

Result(usage, cost, turns, dur, text) ==
    [BaseEvent EXCEPT !.type = "result", !.usage = usage, !.total_cost_usd = cost,
                      !.num_turns = turns, !.duration_ms = dur, !.result = text]

L_blank == [BaseEvent EXCEPT !.json = "blank"]
L_garbage == [BaseEvent EXCEPT !.json = "garbage"]
L_nonobj == [BaseEvent EXCEPT !.json = "nonobj"]
L_meta == [BaseEvent EXCEPT !.has_meta = TRUE, !.meta_duration_ms = 7]
L_init ==
    [BaseEvent EXCEPT !.type = "system", !.subtype = "init",
                      !.mcp_servers = <<K_fmm>>, !.skills = <<K_fmm>>]
L_assistantMeta ==
    [Assistant(<<ToolUse(N_Edit, NoInput), ToolUse(N_Read, Input(P_src, MissingStr, MissingStr))>>,
               Usage(1, 1, NONE, NONE))
       EXCEPT !.has_meta = TRUE]
L_read == Assistant(<<ToolUse(N_Read, Input(P_src, MissingStr, MissingStr))>>, Usage(1, 2, NONE, NONE))
L_readManifest ==
    Assistant(<<ToolUse(N_Read, Input(MANIFEST_MARKER, MissingStr, MissingStr))>>, NoUsage)
L_readFmmDir ==
    Assistant(<<ToolUse(N_Read, Input(P_fmmdir, MissingStr, MissingStr))>>, NoUsage)
L_search ==
    Assistant(<<ToolUse(N_Glob, NoInput), ToolUse(N_Grep, Input(MissingStr, MissingStr, P_dir))>>,
              Usage(NONE, NONE, 3, 1))
L_bash ==
    Assistant(<<ToolUse(N_Bash, Input(MissingStr, C_fmm, MissingStr)),
                ToolUse(N_Bash, Input(MissingStr, C_cat, MissingStr))>>, NoUsage)
L_mcp ==
    Assistant(<<ToolUse(N_McpIndex, NoInput), ToolUse(N_McpFind, NoInput),
                ToolUse(N_FmmManifest, NoInput)>>, Usage(2, 1, NONE, NONE))
L_other ==
    Assistant(<<ToolUse(N_Edit, NoInput), ToolUse(MissingStr, NoInput), TextBlock(T_answer)>>,
              Usage(1, NONE, NONE, NONE))
L_view ==
    Assistant(<<ToolUse(N_View, Input(MissingStr, MissingStr, P_sidecar)),
                ToolUse(N_View, Input(<<>>, MissingStr, P_src)),
                ToolUse(N_View, NoInput)>>, NoUsage)
L_textMarker == Assistant(<<TextBlock(T_marker)>>, NoUsage)
L_strBlock ==
    Assistant(<<ToolUse(N_Glob, NoInput), StrBlock, ToolUse(N_Read, Input(P_src, MissingStr, MissingStr))>>,
              NoUsage)
L_userManifest == User(<<ToolResult(T_marker)>>)
L_userOk == User(<<ToolResult(R_ok), TextBlock(R_ok)>>)
L_resultFull == Result(Usage(5, 6, 7, 8), 2, 3, 9, T_final)
L_resultBare == Result(NoUsage, NONE, NONE, NONE, MissingStr)
L_resultZero == Result(Usage(0, 6, NONE, 0), 0, 1, 0, <<>>)
L_resultNull == Result(NoUsage, NONE, NONE, NONE, NullStr)

\* The lines a stream is made of, by name
LineTable ==
    [blank |-> L_blank,
     garbage |-> L_garbage,
     nonobj |-> L_nonobj,
     meta |-> L_meta,
     init |-> L_init,
     assistantMeta |-> L_assistantMeta,
     read |-> L_read,
     readManifest |-> L_readManifest,
     readFmmDir |-> L_readFmmDir,
     search |-> L_search,
     bash |-> L_bash,
     mcp |-> L_mcp,
     other |-> L_other,
     view |-> L_view,
     textMarker |-> L_textMarker,
     strBlock |-> L_strBlock,
     userManifest |-> L_userManifest,
     userOk |-> L_userOk,
     resultFull |-> L_resultFull,
     resultBare |-> L_resultBare,
     resultZero |-> L_resultZero,
     resultNull |-> L_resultNull]

\* The names of the lines: the stream read so far is kept as a sequence of names
Lines == DOMAIN LineTable

\* The decoded line of that name
Line(id) == LineTable[id]

-----------------------------------------------------------------------------
(* exp15 and exp15-isolated: parse_run *)

\* metrics = {...} at the start of parse_run
ParseRunInit ==
    [tool_calls |-> 0, read_calls |-> 0, glob_calls |-> 0, grep_calls |-> 0,
     bash_calls |-> 0, mcp_calls |-> 0, fmm_cli_calls |-> 0,
     files_accessed |-> {}, manifest_accessed |-> FALSE,
     input_tokens |-> 0, output_tokens |-> 0, cache_read_tokens |-> 0,
     cache_creation_tokens |-> 0, duration_ms |-> 0, num_turns |-> 0, cost_usd |-> 0]

\* The test that a Read target is the manifest: exp15 also accepts any path with
\* "fmm" and "index" in it, exp15-isolated only the marker.
ReadIsManifest(fp, isolated) ==
    IF isolated
    THEN Contains(fp, MANIFEST_MARKER)
    ELSE Contains(fp, MANIFEST_MARKER)
         \/ (Contains(Lower(fp), K_fmm) /\ Contains(Lower(fp), K_index))

\* Mutant of ParseRunToolUse: the total is incremented in the branches of the
\* recognised names only.
ParseRunToolUse_CountsRecognisedOnly(m, block, isolated) ==
    LET tool_name == GetStr(block.name, <<>>)
        fp == GetStr(block.input.file_path, <<>>)
        cmd == GetStr(block.input.command, <<>>)
        m1 == [m EXCEPT !.tool_calls = @ + 1]
    IN  IF tool_name = N_Read
        THEN [m1 EXCEPT !.read_calls = @ + 1,
                        !.files_accessed = IF fp # <<>> THEN @ \cup {fp} ELSE @,
                        !.manifest_accessed =
                            IF fp # <<>> /\ ReadIsManifest(fp, isolated) THEN TRUE ELSE @]
        ELSE IF tool_name = N_Glob
        THEN [m1 EXCEPT !.glob_calls = @ + 1]
        ELSE IF tool_name = N_Grep
        THEN [m1 EXCEPT !.grep_calls = @ + 1]
        ELSE IF tool_name = N_Bash
        THEN [m1 EXCEPT !.bash_calls = @ + 1,
                        !.fmm_cli_calls =
                            IF Contains(cmd, K_fmm_sp) \/ StartsWith(cmd, K_fmm)
                            THEN @ + 1 ELSE @]
        ELSE IF StartsWith(tool_name, PFX_MCP) \/ StartsWith(tool_name, PFX_FMM)
        THEN [m1 EXCEPT !.mcp_calls = @ + 1,
                        !.manifest_accessed =
                            IF isolated /\ (Contains(tool_name, K_manifest)
                                            \/ Contains(tool_name, K_index))
                            THEN TRUE ELSE @]
        ELSE m

\* Mutant of ParseRunToolUse: a Grep block is counted as a glob call as well.
ParseRunToolUse_GrepIsAlsoGlob(m, block, isolated) ==
    LET tool_name == GetStr(block.name, <<>>)
        fp == GetStr(block.input.file_path, <<>>)
        cmd == GetStr(block.input.command, <<>>)
        m1 == [m EXCEPT !.tool_calls = @ + 1]
    IN  IF tool_name = N_Read
        THEN [m1 EXCEPT !.read_calls = @ + 1,
                        !.files_accessed = IF fp # <<>> THEN @ \cup {fp} ELSE @,
                        !.manifest_accessed =
                            IF fp # <<>> /\ ReadIsManifest(fp, isolated) THEN TRUE ELSE @]
        ELSE IF tool_name = N_Glob
        THEN [m1 EXCEPT !.glob_calls = @ + 1]
        ELSE IF tool_name = N_Grep
        THEN [m1 EXCEPT !.grep_calls = @ + 1, !.glob_calls = @ + 1]
        ELSE IF tool_name = N_Bash
        THEN [m1 EXCEPT !.bash_calls = @ + 1,
                        !.fmm_cli_calls =
                            IF Contains(cmd, K_fmm_sp) \/ StartsWith(cmd, K_fmm)
                            THEN @ + 1 ELSE @]
        ELSE IF StartsWith(tool_name, PFX_MCP) \/ StartsWith(tool_name, PFX_FMM)
        THEN [m1 EXCEPT !.mcp_calls = @ + 1,
                        !.manifest_accessed =
                            IF isolated /\ (Contains(tool_name, K_manifest)
                                            \/ Contains(tool_name, K_index))
                            THEN TRUE ELSE @]
        ELSE m1

\* Mutant of ParseRunToolUse: a name that matches nothing is counted as an fmm call.
ParseRunToolUse_UnrecognisedIsMcp(m, block, isolated) ==
    LET tool_name == GetStr(block.name, <<>>)
        fp == GetStr(block.input.file_path, <<>>)
        cmd == GetStr(block.input.command, <<>>)
        m1 == [m EXCEPT !.tool_calls = @ + 1]
    IN  IF tool_name = N_Read
        THEN [m1 EXCEPT !.read_calls = @ + 1,
                        !.files_accessed = IF fp # <<>> THEN @ \cup {fp} ELSE @,
                        !.manifest_accessed =
                            IF fp # <<>> /\ ReadIsManifest(fp, isolated) THEN TRUE ELSE @]
        ELSE IF tool_name = N_Glob
        THEN [m1 EXCEPT !.glob_calls = @ + 1]
        ELSE IF tool_name = N_Grep
        THEN [m1 EXCEPT !.grep_calls = @ + 1]
        ELSE IF tool_name = N_Bash
        THEN [m1 EXCEPT !.bash_calls = @ + 1,
                        !.fmm_cli_calls =
                            IF Contains(cmd, K_fmm_sp) \/ StartsWith(cmd, K_fmm)
                            THEN @ + 1 ELSE @]
        ELSE IF StartsWith(tool_name, PFX_MCP) \/ StartsWith(tool_name, PFX_FMM)
        THEN [m1 EXCEPT !.mcp_calls = @ + 1,
                        !.manifest_accessed =
                            IF isolated /\ (Contains(tool_name, K_manifest)
                                            \/ Contains(tool_name, K_index))
                            THEN TRUE ELSE @]
        ELSE [m1 EXCEPT !.mcp_calls = @ + 1]

\* Mutant of ParseRunToolUse: the total is incremented in every branch but the
\* Bash one.
ParseRunToolUse_BashNotInTotal(m, block, isolated) ==
    LET tool_name == GetStr(block.name, <<>>)
        fp == GetStr(block.input.file_path, <<>>)
        cmd == GetStr(block.input.command, <<>>)
        m1 == [m EXCEPT !.tool_calls = @ + 1]
    IN  IF tool_name = N_Read
        THEN [m1 EXCEPT !.read_calls = @ + 1,
                        !.files_accessed = IF fp # <<>> THEN @ \cup {fp} ELSE @,
                        !.manifest_accessed =
                            IF fp # <<>> /\ ReadIsManifest(fp, isolated) THEN TRUE ELSE @]
        ELSE IF tool_name = N_Glob
        THEN [m1 EXCEPT !.glob_calls = @ + 1]
        ELSE IF tool_name = N_Grep
        THEN [m1 EXCEPT !.grep_calls = @ + 1]
        ELSE IF tool_name = N_Bash
        THEN [m EXCEPT !.bash_calls = @ + 1,
                       !.fmm_cli_calls =
                           IF Contains(cmd, K_fmm_sp) \/ StartsWith(cmd, K_fmm)
                           THEN @ + 1 ELSE @]
        ELSE IF StartsWith(tool_name, PFX_MCP) \/ StartsWith(tool_name, PFX_FMM)
        THEN [m1 EXCEPT !.mcp_calls = @ + 1,
                        !.manifest_accessed =
                            IF isolated /\ (Contains(tool_name, K_manifest)
                                            \/ Contains(tool_name, K_index))
                            THEN TRUE ELSE @]
        ELSE m1

\* The body of `if block.get("type") == "tool_use":` for one block
ParseRunToolUse(m, block, isolated) ==
    LET tool_name == GetStr(block.name, <<>>)
        fp == GetStr(block.input.file_path, <<>>)
        cmd == GetStr(block.input.command, <<>>)
        m1 == [m EXCEPT !.tool_calls = @ + 1]
    IN  IF tool_name = N_Read
        THEN [m1 EXCEPT !.read_calls = @ + 1,
                        !.files_accessed = IF fp # <<>> THEN @ \cup {fp} ELSE @,
                        !.manifest_accessed =
                            IF fp # <<>> /\ ReadIsManifest(fp, isolated) THEN TRUE ELSE @]
        ELSE IF tool_name = N_Glob
        THEN [m1 EXCEPT !.glob_calls = @ + 1]
        ELSE IF tool_name = N_Grep
        THEN [m1 EXCEPT !.grep_calls = @ + 1]
        ELSE IF tool_name = N_Bash
        THEN [m1 EXCEPT !.bash_calls = @ + 1,
                        !.fmm_cli_calls =
                            IF Contains(cmd, K_fmm_sp) \/ StartsWith(cmd, K_fmm)
                            THEN @ + 1 ELSE @]
        ELSE IF StartsWith(tool_name, PFX_MCP) \/ StartsWith(tool_name, PFX_FMM)
        THEN [m1 EXCEPT !.mcp_calls = @ + 1,
                        !.manifest_accessed =
                            IF isolated /\ (Contains(tool_name, K_manifest)
                                            \/ Contains(tool_name, K_index))
                            THEN TRUE ELSE @]
        ELSE m1

RECURSIVE ParseRunAssistant(_, _, _)
\* `for block in content:` of an assistant record.  block.get on a block that is
\* not an object raises AttributeError: ok = FALSE, with the blocks before it counted.
ParseRunAssistant(m, content, isolated) ==
    IF content = <<>> THEN [m |-> m, ok |-> TRUE]
    ELSE LET block == Head(content) IN
         IF block.json # "obj" THEN [m |-> m, ok |-> FALSE]
         ELSE ParseRunAssistant(
                  IF block.type = "tool_use" THEN ParseRunToolUse(m, block, isolated) ELSE m,
                  Tail(content), isolated)

RECURSIVE ParseRunUser(_, _)
\* `for block in content:` of a user record
ParseRunUser(m, content) ==
    IF content = <<>> THEN [m |-> m, ok |-> TRUE]
    ELSE LET block == Head(content) IN
         IF block.json # "obj" THEN [m |-> m, ok |-> FALSE]
         ELSE ParseRunUser(
                  IF block.type = "tool_result"
                     /\ Contains(GetStr(block.content, <<>>), MANIFEST_MARKER)
                  THEN [m EXCEPT !.manifest_accessed = TRUE] ELSE m,
                  Tail(content))

\* Mutant of ParseRunResult: the result record also starts the manifest flag afresh.
ParseRunResult_ResetsManifest(m, event) ==
    [m EXCEPT !.duration_ms = Get(event.duration_ms, m.duration_ms),
              !.num_turns = Get(event.num_turns, 0),
              !.cost_usd = Get(event.total_cost_usd, 0),
              !.input_tokens = Get(event.usage.input_tokens, 0),
              !.output_tokens = Get(event.usage.output_tokens, 0),
              !.cache_read_tokens = Get(event.usage.cache_read_input_tokens, 0),
              !.cache_creation_tokens = Get(event.usage.cache_creation_input_tokens, 0),
              !.manifest_accessed = FALSE]

\* `if etype == "result":` of parse_run
ParseRunResult(m, event) ==
    [m EXCEPT !.duration_ms = Get(event.duration_ms, m.duration_ms),
              !.num_turns = Get(event.num_turns, 0),
              !.cost_usd = Get(event.total_cost_usd, 0),
              !.input_tokens = Get(event.usage.input_tokens, 0),
              !.output_tokens = Get(event.usage.output_tokens, 0),
              !.cache_read_tokens = Get(event.usage.cache_read_input_tokens, 0),
              !.cache_creation_tokens = Get(event.usage.cache_creation_input_tokens, 0)]

\* `if "_meta" in event:` of parse_run
ParseRunMeta(m, event) == [m EXCEPT !.duration_ms = Get(event.meta_duration_ms, 0)]

\* One iteration of `for line in f:` of parse_run
ParseRunStep(m, event, isolated) ==
    IF event.json \in {"blank", "garbage"} THEN [m |-> m, ok |-> TRUE]
    ELSE IF event.json = "nonobj" THEN [m |-> m, ok |-> FALSE]
    ELSE IF event.has_meta THEN [m |-> ParseRunMeta(m, event), ok |-> TRUE]
    ELSE IF event.type = "result" THEN [m |-> ParseRunResult(m, event), ok |-> TRUE]
    ELSE IF event.type = "assistant"
         THEN ParseRunAssistant(m, event.message.content, isolated)
    ELSE IF event.type = "user" THEN ParseRunUser(m, event.message.content)
    ELSE [m |-> m, ok |-> TRUE]

\* The loop body of exp15 parse_run
parse_run_15(m, event) == ParseRunStep(m, event, FALSE)

\* The loop body of exp15-isolated parse_run
parse_run_15i(m, event) == ParseRunStep(m, event, TRUE)

\* metrics["files_accessed"] = len(metrics["files_accessed"]); return metrics
ParseRunReturn(m) == [m EXCEPT !.files_accessed = Cardinality(@)]

-----------------------------------------------------------------------------
(* exp16 parse_jsonl and exp17 parse_stream_json *)

\* The locals of parse_jsonl before its loop
ParseJsonlInit ==
    [tool_calls |-> <<>>, total_input_tokens |-> 0, total_output_tokens |-> 0,
     total_cache_read |-> 0, total_cache_create |-> 0, files_read |-> {},
     final_text |-> <<>>, mcp_servers |-> <<>>, skills |-> <<>>]

\* The locals of parse_stream_json before its loop
ParseStreamInit ==
    [tool_calls |-> <<>>, files_read |-> {}, final_text |-> <<>>, total_cost |-> 0,
     total_input |-> 0, total_output |-> 0, total_cache_read |-> 0,
     total_cache_create |-> 0, num_turns |-> 0, duration_ms |-> 0,
     mcp_servers |-> <<>>, permission_denials |-> 0]

\* Mutant of ScoreBlock: the first text block is kept, later ones do not overwrite it.
ScoreBlock_KeepsFirstText(m, block) ==
    IF block.json # "obj" THEN m
    ELSE IF block.type = "tool_use"
    THEN LET name == GetStr(block.name, <<>>)
             s1 == IF name = N_Read /\ block.input.file_path # MissingStr
                   THEN m.files_read \cup {block.input.file_path} ELSE m.files_read
             s2 == IF name = N_Grep /\ block.input.path # MissingStr
                   THEN s1 \cup {block.input.path} ELSE s1
         IN  [m EXCEPT !.tool_calls = Append(@, name), !.files_read = s2]
    ELSE IF block.type = "text"
    THEN [m EXCEPT !.final_text = IF @ = <<>> THEN GetStr(block.text, <<>>) ELSE @]
    ELSE m

\* One content block of an assistant record, as exp16 and exp17 treat it (the same
\* code in both): a block that is not an object is passed over.
ScoreBlock(m, block) ==
    IF block.json # "obj" THEN m
    ELSE IF block.type = "tool_use"
    THEN LET name == GetStr(block.name, <<>>)
             s1 == IF name = N_Read /\ block.input.file_path # MissingStr
                   THEN m.files_read \cup {block.input.file_path} ELSE m.files_read
             s2 == IF name = N_Grep /\ block.input.path # MissingStr
                   THEN s1 \cup {block.input.path} ELSE s1
         IN  [m EXCEPT !.tool_calls = Append(@, name), !.files_read = s2]
    ELSE IF block.type = "text"
    THEN [m EXCEPT !.final_text = GetStr(block.text, <<>>)]
    ELSE m

RECURSIVE ScoreBlocks(_, _)
\* `for block in msg.get("message", {}).get("content", []):`
ScoreBlocks(m, content) ==
    IF content = <<>> THEN m
    ELSE ScoreBlocks(ScoreBlock(m, Head(content)), Tail(content))

\* Mutant of parse_jsonl: json.loads is called outside a try, so a line that does
\* not decode raises.
parse_jsonl_NoExcept(m, msg) ==
    IF msg.json \in {"blank", "garbage"} THEN [m |-> m, ok |-> FALSE]
    ELSE IF msg.json = "nonobj" THEN [m |-> m, ok |-> FALSE]
    ELSE
      LET usage == msg.message.usage
          a == IF msg.type = "system" /\ msg.subtype = "init"
               THEN [m EXCEPT !.mcp_servers = msg.mcp_servers, !.skills = msg.skills]
               ELSE m
          b == IF msg.type = "assistant"
               THEN ScoreBlocks(
                      [a EXCEPT !.total_input_tokens = @ + Get(usage.input_tokens, 0),
                                !.total_output_tokens = @ + Get(usage.output_tokens, 0),
                                !.total_cache_read = @ + Get(usage.cache_read_input_tokens, 0),
                                !.total_cache_create = @ + Get(usage.cache_creation_input_tokens, 0)],
                      msg.message.content)
               ELSE a
          c == IF msg.type = "result"
               THEN [b EXCEPT !.final_text = GetStr(msg.result, b.final_text)]
               ELSE b
      IN  [m |-> c, ok |-> TRUE]

\* One iteration of `for line in open(filepath, ...):` of parse_jsonl
parse_jsonl(m, msg) ==
    IF msg.json \in {"blank", "garbage"} THEN [m |-> m, ok |-> TRUE]
    ELSE IF msg.json = "nonobj" THEN [m |-> m, ok |-> FALSE]
    ELSE
      LET usage == msg.message.usage
          a == IF msg.type = "system" /\ msg.subtype = "init"
               THEN [m EXCEPT !.mcp_servers = msg.mcp_servers, !.skills = msg.skills]
               ELSE m
          b == IF msg.type = "assistant"
               THEN ScoreBlocks(
                      [a EXCEPT !.total_input_tokens = @ + Get(usage.input_tokens, 0),
                                !.total_output_tokens = @ + Get(usage.output_tokens, 0),
                                !.total_cache_read = @ + Get(usage.cache_read_input_tokens, 0),
                                !.total_cache_create = @ + Get(usage.cache_creation_input_tokens, 0)],
                      msg.message.content)
               ELSE a
          c == IF msg.type = "result"
               THEN [b EXCEPT !.final_text = GetStr(msg.result, b.final_text)]
               ELSE b
      IN  [m |-> c, ok |-> TRUE]

\* rusage.get(key) is truthy: the key is present and its value is not 0
Truthy(v) == v # NONE /\ v # 0

\* `if msg_type == "result":` of parse_stream_json
ParseStreamResult(m, msg) ==
    LET text == GetStr(msg.result, m.final_text)
        rusage == msg.usage
    IN  [m EXCEPT
           !.final_text = IF text \notin {<<>>, NullStr} THEN text ELSE m.final_text,
           !.total_cost = Get(msg.total_cost_usd, 0),
           !.num_turns = Get(msg.num_turns, 0),
           !.duration_ms = Get(msg.duration_ms, 0),
           !.permission_denials = msg.permission_denials,
           !.total_input = IF Truthy(rusage.input_tokens) THEN rusage.input_tokens ELSE @,
           !.total_output = IF Truthy(rusage.output_tokens) THEN rusage.output_tokens ELSE @,
           !.total_cache_read =
               IF Truthy(rusage.cache_read_input_tokens)
               THEN rusage.cache_read_input_tokens ELSE @,
           !.total_cache_create =
               IF Truthy(rusage.cache_creation_input_tokens)
               THEN rusage.cache_creation_input_tokens ELSE @]

\* One iteration of `for line in open(filepath, ...):` of parse_stream_json
parse_stream_json(m, msg) ==
    IF msg.json \in {"blank", "garbage"} THEN [m |-> m, ok |-> TRUE]
    ELSE IF msg.json = "nonobj" THEN [m |-> m, ok |-> FALSE]
    ELSE
      LET usage == msg.message.usage
          a == IF msg.type = "system" /\ msg.subtype = "init"
               THEN [m EXCEPT !.mcp_servers = msg.mcp_servers]
               ELSE m
          b == IF msg.type = "assistant"
               THEN [ScoreBlocks(a, msg.message.content) EXCEPT
                       !.total_input = @ + Get(usage.input_tokens, 0),
                       !.total_output = @ + Get(usage.output_tokens, 0),
                       !.total_cache_read = @ + Get(usage.cache_read_input_tokens, 0),
                       !.total_cache_create = @ + Get(usage.cache_creation_input_tokens, 0)]
               ELSE a
          c == IF msg.type = "result" THEN ParseStreamResult(b, msg) ELSE b
      IN  [m |-> c, ok |-> TRUE]

\* sum(1 for t in tool_calls if t == name)
CountName(tool_calls, name) ==
    Cardinality({i \in 1..Len(tool_calls) : tool_calls[i] = name})

\* t is kept by `[t for t in tool_calls if "fmm" in t.lower()]`
IsFmmName(t) == Contains(Lower(t), K_fmm)

\* The dict returned by parse_jsonl
ParseJsonlReturn(m) ==
    [tool_calls |-> m.tool_calls,
     tool_call_count |-> Len(m.tool_calls),
     fmm_calls |-> SelectSeq(m.tool_calls, IsFmmName),
     grep_calls |-> CountName(m.tool_calls, N_Grep),
     glob_calls |-> CountName(m.tool_calls, N_Glob),
     read_calls |-> CountName(m.tool_calls, N_Read),
     bash_calls |-> CountName(m.tool_calls, N_Bash),
     input_tokens |-> m.total_input_tokens,
     output_tokens |-> m.total_output_tokens,
     cache_read_tokens |-> m.total_cache_read,
     cache_create_tokens |-> m.total_cache_create,
     total_tokens |-> m.total_input_tokens + m.total_output_tokens
                      + m.total_cache_read + m.total_cache_create,
     files_read |-> Cardinality(m.files_read),
     final_text |-> m.final_text,
     mcp_servers |-> m.mcp_servers,
     skills |-> m.skills]

\* The dict returned by parse_stream_json
ParseStreamReturn(m) ==
    [tool_calls |-> m.tool_calls,
     tool_call_count |-> Len(m.tool_calls),
     fmm_calls |-> SelectSeq(m.tool_calls, IsFmmName),
     grep_calls |-> CountName(m.tool_calls, N_Grep),
     glob_calls |-> CountName(m.tool_calls, N_Glob),
     read_calls |-> CountName(m.tool_calls, N_Read),
     bash_calls |-> CountName(m.tool_calls, N_Bash),
     input_tokens |-> m.total_input,
     output_tokens |-> m.total_output,
     cache_read_tokens |-> m.total_cache_read,
     cache_create_tokens |-> m.total_cache_create,
     total_tokens |-> m.total_input + m.total_output
                      + m.total_cache_read + m.total_cache_create,
     cost_usd |-> m.total_cost,
     num_turns |-> m.num_turns,
     duration_ms |-> m.duration_ms,
     files_read |-> Cardinality(m.files_read),
     final_text |-> IF m.final_text \in {<<>>, NullStr} THEN <<>> ELSE m.final_text,
     mcp_servers |-> m.mcp_servers,
     permission_denials |-> m.permission_denials]

-----------------------------------------------------------------------------
(* exp16 and exp17: score_exact_path *)

DOT_SLASH == <<".", "/">>

\* The backquote character U+0060 of strip("\140"); written "#" here because a
\* backquote cannot occur in a string of this language
BACKTICK == "#"

\* exp16 score_exact_path; 1 is 1.0 and 0 is 0.0
score_exact_path_16(a, t) ==
    LET answer1 == Replace(Strip(a), DOT_SLASH, <<>>)
        truth1 == Replace(Strip(t), DOT_SLASH, <<>>)
    IN  IF Contains(answer1, truth1) THEN 1 ELSE 0

\* exp17 score_exact_path
score_exact_path_17(a, t) ==
    LET answer1 == Strip(StripSet(Replace(Strip(a), DOT_SLASH, <<>>), {BACKTICK}))
        truth1 == Replace(Strip(t), DOT_SLASH, <<>>)
    IN  IF Contains(answer1, truth1) THEN 1 ELSE 0

-----------------------------------------------------------------------------
(* exp16 and exp17: score_set_match, score_exact_number, score_result *)

\* A score: err is "" for a returned value num/den and the exception's name otherwise
Score(num, den) == [err |-> "", num |-> num, den |-> den]

\* The call raised
Raised(name) == [err |-> name, num |-> 0, den |-> 1]

\* A ground-truth value of tasks.json: kind "str", "list", "num", "none" (JSON null)
\* or "absent" (the task has no ground_truth key)
GT(kind, str, list, num) == [kind |-> kind, str |-> str, list |-> list, num |-> num]

GTStr(str_) == GT("str", str_, <<>>, 0)

GTList(list) == GT("list", <<>>, list, 0)

GTNum(num) == GT("num", <<>>, <<>>, num)

GTNone == GT("none", <<>>, <<>>, 0)

GTAbsent == GT("absent", <<>>, <<>>, 0)

\* The scoring tags of score_result, and the one for a task with no scoring key
S_exact_path == "exact_path"
S_set_match == "set_match"
S_exact_number == "exact_number"
S_absent == "<absent>"

EXT_JS == <<".", "j", "s">>
EXT_TS == <<".", "t", "s">>

RECURSIVE LastSegment(_)
\* item.split("/")[-1]
LastSegment(item) ==
    IF item = <<>> \/ item[Len(item)] = "/" THEN <<>>
    ELSE LastSegment(SubSeq(item, 1, Len(item) - 1)) \o <<item[Len(item)]>>

\* stem = item.split("/")[-1].replace(".js", "").replace(".ts", "")
Stem(item) == Replace(Replace(LastSegment(item), EXT_JS, <<>>), EXT_TS, <<>>)

RECURSIVE CountFound(_, _)
\* the loop of score_set_match: found += 1 for each item whose stem is in answer_lower
CountFound(answer_lower, truth_list) ==
    IF truth_list = <<>> THEN 0
    ELSE (IF Contains(answer_lower, Lower(Stem(Head(truth_list)))) THEN 1 ELSE 0)
         + CountFound(answer_lower, Tail(truth_list))

\* not truth_list
Falsy(gt) ==
    \/ gt.kind = "none"
    \/ gt.kind = "list" /\ gt.list = <<>>
    \/ gt.kind = "str" /\ gt.str = <<>>
    \/ gt.kind = "num" /\ gt.num = 0

\* The items a for loop over the ground truth yields: a str yields its characters
ItemsOf(gt) ==
    IF gt.kind = "str" THEN [i \in 1..Len(gt.str) |-> <<gt.str[i]>>]
    ELSE gt.list

\* score_set_match without its guard for an empty ground truth
score_set_match_NoEmptyGuard(a, gt) ==
    IF gt.kind \in {"num", "none"} THEN Raised("TypeError")
    ELSE IF Len(ItemsOf(gt)) = 0 THEN Raised("ZeroDivisionError")
    ELSE Score(CountFound(Strip(Lower(a)), ItemsOf(gt)), Len(ItemsOf(gt)))

\* score_set_match(answer, truth_list)
score_set_match(a, gt) ==
    IF Falsy(gt) THEN Score(1, 1)
    ELSE IF gt.kind = "num" THEN Raised("TypeError")
    ELSE Score(CountFound(Strip(Lower(a)), ItemsOf(gt)), Len(ItemsOf(gt)))

\* \d of the pattern, on the characters of the model
IsDigit(c) == c \in {"0", "1", "2", "3", "4", "5", "6", "7", "8", "9"}

\* \w of the pattern, on the characters of the model
IsWord(c) == IsDigit(c) \/ c \in {"a", "b", "e", "B", "E", "_"}

\* \b at position p (between s[p-1] and s[p]): exactly one side is a word character
Boundary(s, p) ==
    LET before == p > 1 /\ p - 1 <= Len(s) /\ IsWord(s[p - 1])
        after == p >= 1 /\ p <= Len(s) /\ IsWord(s[p])
    IN  before # after

\* The ends e at which \b(\d+)\b matches s[p..e] when the match starts at p
MatchEnds(s, p) ==
    {e \in p..Len(s) : (\A k \in p..e : IsDigit(s[k])) /\ Boundary(s, e + 1)}

\* The largest element of a non-empty set of integers
MaxOf(S) == CHOOSE x \in S : \A y \in S : y <= x

RECURSIVE FindAllFrom(_, _)
\* re.findall(r"\b(\d+)\b", s) scanning from position p: the leftmost match, the
\* longest one the greedy \d+ can keep, then on from its end
FindAllFrom(s, p) ==
    IF p > Len(s) THEN <<>>
    ELSE IF Boundary(s, p) /\ MatchEnds(s, p) # {}
         THEN <<SubSeq(s, p, MaxOf(MatchEnds(s, p)))>> \o FindAllFrom(s, MaxOf(MatchEnds(s, p)) + 1)
         ELSE FindAllFrom(s, p + 1)

\* re.findall(r"\b(\d+)\b", answer)
FindNumbers(s) == FindAllFrom(s, 1)

\* str(d) for one decimal digit
DigitChar(d) ==
    CASE d = 0 -> "0" [] d = 1 -> "1" [] d = 2 -> "2" [] d = 3 -> "3" [] d = 4 -> "4"
      [] d = 5 -> "5" [] d = 6 -> "6" [] d = 7 -> "7" [] d = 8 -> "8" [] d = 9 -> "9"

RECURSIVE StrOfNat(_)
\* str(n) for an int n >= 0
StrOfNat(n) == IF n < 10 THEN <<DigitChar(n)>> ELSE StrOfNat(n \div 10) \o <<DigitChar(n % 10)>>

\* The text of str(None)
STR_NONE == <<"N", "o", "n", "e">>

\* str(truth) as score_result passes it to score_exact_number; the repr of a list
\* starts with "[" and is kept as that one character
StrOf(gt) ==
    CASE gt.kind = "num" -> StrOfNat(gt.num)
      [] gt.kind = "str" -> gt.str
      [] gt.kind = "none" -> STR_NONE
      [] OTHER -> <<"[">>

\* score_exact_number matching the digits anywhere in the answer
score_exact_number_Infix(a, truth_str) ==
    IF Contains(a, truth_str) THEN Score(1, 1) ELSE Score(0, 1)

\* score_exact_number(answer, truth): truth in numbers
score_exact_number(a, truth_str) ==
    IF \E i \in 1..Len(FindNumbers(a)) : FindNumbers(a)[i] = truth_str
    THEN Score(1, 1) ELSE Score(0, 1)

\* score_exact_path applied to a ground truth of any kind: .strip() needs a str
ExactPath(v, gt) ==
    IF gt.kind # "str" THEN Raised("AttributeError") ELSE Score(v, 1)

\* score_result whose last branch returns 1.0
score_result_UnknownIsOne(version, a, t) ==
    IF t.scoring = S_absent \/ t.ground_truth.kind = "absent" THEN Raised("KeyError")
    ELSE IF t.scoring = S_exact_path
         THEN ExactPath(IF version = 16 THEN score_exact_path_16(a, t.ground_truth.str)
                                         ELSE score_exact_path_17(a, t.ground_truth.str),
                        t.ground_truth)
    ELSE IF t.scoring = S_set_match THEN score_set_match(a, t.ground_truth)
    ELSE IF t.scoring = S_exact_number THEN score_exact_number(a, StrOf(t.ground_truth))
    ELSE Score(1, 1)

\* score_result(answer, task) of exp16 (version 16) and of exp17 (version 17)
score_result(version, a, t) ==
    IF t.scoring = S_absent \/ t.ground_truth.kind = "absent" THEN Raised("KeyError")
    ELSE IF t.scoring = S_exact_path
         THEN ExactPath(IF version = 16 THEN score_exact_path_16(a, t.ground_truth.str)
                                         ELSE score_exact_path_17(a, t.ground_truth.str),
                        t.ground_truth)
    ELSE IF t.scoring = S_set_match THEN score_set_match(a, t.ground_truth)
    ELSE IF t.scoring = S_exact_number THEN score_exact_number(a, StrOf(t.ground_truth))
    ELSE Score(0, 1)

-----------------------------------------------------------------------------
(* Python numbers: int is exact, float is binary floating point rounded to nearest,
   ties to even, here with a significand of MantBits bits *)

RECURSIVE Pow2(_)
Pow2(k) == IF k <= 0 THEN 1 ELSE 2 * Pow2(k - 1)

RECURSIVE Canon(_, _, _)
\* The number n/d (d a power of two) in lowest terms; float is FALSE for an int
Canon(n, d, float) ==
    IF d > 1 /\ n % 2 = 0 THEN Canon(n \div 2, d \div 2, float)
    ELSE [n |-> n, d |-> d, float |-> float]

\* The int k
PyInt(k) == [n |-> k, d |-> 1, float |-> FALSE]

\* What an operation that raised ZeroDivisionError leaves in place of a number
ZERO_DIVISION == [n |-> 0, d |-> 0, float |-> TRUE]

\* The operation that was to produce x raised
IsRaised(x) == x.d = 0

\* A/B rounded to the nearest integer, ties to even (A >= 0, B > 0)
RoundHalfEven(A, B) ==
    LET q == A \div B
        r == A % B
    IN  IF 2 * r < B \/ (2 * r = B /\ q % 2 = 0) THEN q ELSE q + 1

RECURSIVE RoundScaled(_, _, _, _)
\* The float nearest to (a/b)*(up/dn), a > 0: a/b is scaled by powers of two into
\* [2^(MantBits-1), 2^MantBits) and rounded to an integer significand there
RoundScaled(a, b, up, dn) ==
    IF a \div b >= Pow2(MantBits)
    THEN (IF a % 2 = 0 THEN RoundScaled(a \div 2, b, 2 * up, dn)
                       ELSE RoundScaled(a, 2 * b, 2 * up, dn))
    ELSE IF a \div b < Pow2(MantBits - 1)
    THEN (IF b % 2 = 0 THEN RoundScaled(a, b \div 2, up, 2 * dn)
                       ELSE RoundScaled(2 * a, b, up, 2 * dn))
    ELSE Canon(RoundHalfEven(a, b) * up, dn, TRUE)

\* The float nearest to the rational n/d (d > 0)
Round(n, d) ==
    IF n = 0 THEN [n |-> 0, d |-> 1, float |-> TRUE]
    ELSE IF n > 0 THEN RoundScaled(n, d, 1, 1)
    ELSE [RoundScaled(-n, d, 1, 1) EXCEPT !.n = -@]

\* The larger of two denominators that are powers of two: their common denominator
CommonDen(x, y) == IF x.d >= y.d THEN x.d ELSE y.d

\* x + y
Add(x, y) ==
    IF IsRaised(x) \/ IsRaised(y) THEN ZERO_DIVISION
    ELSE LET d == CommonDen(x, y)
             n == x.n * (d \div x.d) + y.n * (d \div y.d)
         IN  IF x.float \/ y.float THEN Round(n, d) ELSE PyInt(n)

\* x - y
Sub(x, y) ==
    IF IsRaised(x) \/ IsRaised(y) THEN ZERO_DIVISION
    ELSE LET d == CommonDen(x, y)
             n == x.n * (d \div x.d) - y.n * (d \div y.d)
         IN  IF x.float \/ y.float THEN Round(n, d) ELSE PyInt(n)

\* x * y, and x ** 2 as x * x
Mul(x, y) ==
    IF IsRaised(x) \/ IsRaised(y) THEN ZERO_DIVISION
    ELSE IF x.float \/ y.float THEN Round(x.n * y.n, x.d * y.d) ELSE PyInt(x.n * y.n)

\* x / y: true division, a float; raises when y is zero
TrueDiv(x, y) ==
    IF IsRaised(x) \/ IsRaised(y) \/ y.n = 0 THEN ZERO_DIVISION
    ELSE IF y.n > 0 THEN Round(x.n * y.d, x.d * y.n)
    ELSE Round(-(x.n * y.d), x.d * (-y.n))

\* x < y
Less(x, y) == x.n * y.d < y.n * x.d

\* x == y: an int and a float of the same value are equal
NumEq(x, y) == x.d # 0 /\ y.d # 0 /\ x.n * y.d = y.n * x.d

\* max(x, y): the first argument unless the second is larger
Max(x, y) == IF Less(x, y) THEN y ELSE x

RECURSIVE SumFrom(_, _)
\* the loop of sum(): the running total, left to right
SumFrom(total, values) ==
    IF values = <<>> THEN total ELSE SumFrom(Add(total, Head(values)), Tail(values))

\* sum(values): starts from the int 0
Sum(values) == SumFrom(PyInt(0), values)

\* The largest m with m * m <= k
ISqrt(k) == CHOOSE m \in 0..Pow2(MantBits) : m * m <= k /\ k < (m + 1) * (m + 1)

RECURSIVE SqrtScaled(_, _, _, _)
\* The float nearest to sqrt(a/b)*(up/dn), a > 0: a/b is scaled by powers of four
\* into [4^(MantBits-1), 4^MantBits), where the root has an integer part of
\* MantBits bits, rounded up when a/b lies above (m + 1/2)^2
SqrtScaled(a, b, up, dn) ==
    IF a \div b >= Pow2(2 * MantBits)
    THEN (IF a % 4 = 0 THEN SqrtScaled(a \div 4, b, 2 * up, dn)
                       ELSE SqrtScaled(a, 4 * b, 2 * up, dn))
    ELSE IF a \div b < Pow2(2 * MantBits - 2)
    THEN (IF b % 4 = 0 THEN SqrtScaled(a, b \div 4, up, 2 * dn)
                       ELSE SqrtScaled(4 * a, b, up, 2 * dn))
    ELSE LET m == ISqrt(a \div b)
             mid == (4 * m * m + 4 * m + 1) * b
         IN  Canon((IF 4 * a > mid \/ (4 * a = mid /\ m % 2 = 1) THEN m + 1 ELSE m) * up,
                   dn, TRUE)

\* math.sqrt(x) for x >= 0
Sqrt(x) ==
    IF IsRaised(x) THEN ZERO_DIVISION
    ELSE IF x.n = 0 THEN [n |-> 0, d |-> 1, float |-> TRUE]
    ELSE SqrtScaled(x.n, x.d, 1, 1)

-----------------------------------------------------------------------------
(* exp15-isolated: compute_averages, stddev, compute_stats *)

\* CONDITIONS
CONDITIONS == <<"A", "B", "C", "D">>

\* The METRIC_KEYS of the model: tool_calls stands for the integer metrics,
\* cost_usd is the float one
METRIC_KEYS == {"tool_calls", "cost_usd"}

RECURSIVE Flatten(_)
\* all_metrics: the runs of every task of a condition, in the dict's order
Flatten(entries) ==
    IF entries = <<>> THEN <<>> ELSE Head(entries).runs \o Flatten(Tail(entries))

\* [m[k] for m in all_metrics]
Column(all_metrics, k) == [i \in 1..Len(all_metrics) |-> all_metrics[i][k]]

\* sum(1 for m in all_metrics if m["manifest_accessed"])
ManifestCount(all_metrics) ==
    Cardinality({i \in 1..Len(all_metrics) : all_metrics[i].manifest_accessed})

\* sum(1 for ...) / n * 100
ManifestPct(all_metrics) ==
    Mul(TrueDiv(PyInt(ManifestCount(all_metrics)), PyInt(Len(all_metrics))), PyInt(100))

\* The avg dict compute_averages builds for one condition
AveragesOf(all_metrics) ==
    [tool_calls |-> TrueDiv(Sum(Column(all_metrics, "tool_calls")), PyInt(Len(all_metrics))),
     cost_usd |-> TrueDiv(Sum(Column(all_metrics, "cost_usd")), PyInt(Len(all_metrics))),
     manifest_pct |-> ManifestPct(all_metrics),
     n |-> Len(all_metrics)]

\* Mutant of Emitted: a condition of the dataset is kept when it has no runs.
Emitted_KeepsEmpty(ds) ==
    {CONDITIONS[i] : i \in {j \in 1..Len(CONDITIONS) : CONDITIONS[j] \in DOMAIN ds}}

\* The conditions compute_averages and compute_stats emit an entry for
Emitted(ds) ==
    {CONDITIONS[i] : i \in {j \in 1..Len(CONDITIONS) :
        CONDITIONS[j] \in DOMAIN ds /\ Flatten(ds[CONDITIONS[j]]) # <<>>}}

\* compute_averages(data)
compute_averages(ds) == [cond \in Emitted(ds) |-> AveragesOf(Flatten(ds[cond]))]

\* stddev(values)
stddev(values) ==
    IF Len(values) < 2 THEN [n |-> 0, d |-> 1, float |-> TRUE]
    ELSE LET mean == TrueDiv(Sum(values), PyInt(Len(values)))
             sq == [i \in 1..Len(values) |-> Mul(Sub(values[i], mean), Sub(values[i], mean))]
         IN  Sqrt(TrueDiv(Sum(sq), PyInt(Len(values) - 1)))

\* result[k] of compute_stats
StatOf(all_metrics, k) ==
    [mean |-> TrueDiv(Sum(Column(all_metrics, k)), PyInt(Len(all_metrics))),
     stddev |-> stddev(Column(all_metrics, k)),
     n |-> Len(all_metrics)]

\* compute_stats(data)
compute_stats(ds) ==
    [cond \in Emitted(ds) |->
        [tool_calls |-> StatOf(Flatten(ds[cond]), "tool_calls"),
         cost_usd |-> StatOf(Flatten(ds[cond]), "cost_usd"),
         manifest_pct |-> ManifestPct(Flatten(ds[cond]))]]

-----------------------------------------------------------------------------
(* exp18: parse_stream_json of analyze.py *)

N_unknown == <<"u", "n", "k", "n", "o", "w", "n">>
EXT_FMM == <<".", "f", "m", "m">>

\* s.endswith(suffix)
EndsWith(s, suffix) ==
    Len(suffix) <= Len(s) /\ SubSeq(s, Len(s) - Len(suffix) + 1, Len(s)) = suffix

\* metrics = {...} at the start of parse_stream_json; tools_by_name is a
\* defaultdict(int), here the function from the names seen to their counts
Parse18Init ==
    [tool_calls |-> 0, tools_by_name |-> [n \in {} |-> 0], files_read |-> <<>>,
     sidecar_reads |-> 0, source_reads |-> 0, read_calls |-> 0,
     input_tokens |-> 0, output_tokens |-> 0, cache_read_tokens |-> 0,
     total_cost_usd |-> 0, num_turns |-> 0, duration_ms |-> 0,
     mcp_calls |-> 0, response |-> <<>>]

\* metrics["tools_by_name"][name] += 1
BumpName(by_name, name) ==
    [n \in DOMAIN by_name \cup {name} |->
        IF n = name THEN (IF n \in DOMAIN by_name THEN by_name[n] + 1 ELSE 1)
        ELSE by_name[n]]

\* path = inp.get("file_path") or inp.get("path", "")
ReadPath(inp) ==
    IF inp.file_path \notin {MissingStr, <<>>} THEN inp.file_path
    ELSE GetStr(inp.path, <<>>)

\* Mutant of Parse18ToolUse: a path that is read is not classified as a sidecar
\* or a source read when it was read before.
Parse18ToolUse_CountsDistinctPaths(m, item) ==
    LET name == GetStr(item.name, N_unknown)
        m1 == [m EXCEPT !.tool_calls = @ + 1,
                        !.tools_by_name = BumpName(@, name)]
        m2 == IF StartsWith(name, PFX_MCP) \/ StartsWith(name, PFX_FMM)
              THEN [m1 EXCEPT !.mcp_calls = @ + 1] ELSE m1
        path == ReadPath(item.input)
        seen == \E i \in 1..Len(m.files_read) : m.files_read[i] = path
    IN  IF name \in {N_Read, N_View}
        THEN LET m3 == [m2 EXCEPT !.read_calls = @ + 1]
             IN  IF path # <<>>
                 THEN [m3 EXCEPT !.files_read = Append(@, path),
                                 !.sidecar_reads =
                                    IF EndsWith(path, EXT_FMM) /\ ~seen THEN @ + 1 ELSE @,
                                 !.source_reads =
                                    IF EndsWith(path, EXT_FMM) \/ seen THEN @ ELSE @ + 1]
                 ELSE m3
        ELSE m2

\* The body of `if item.get("type") == "tool_use":` for one item
Parse18ToolUse(m, item) ==
    LET name == GetStr(item.name, N_unknown)
        m1 == [m EXCEPT !.tool_calls = @ + 1,
                        !.tools_by_name = BumpName(@, name)]
        m2 == IF StartsWith(name, PFX_MCP) \/ StartsWith(name, PFX_FMM)
              THEN [m1 EXCEPT !.mcp_calls = @ + 1] ELSE m1
        path == ReadPath(item.input)
    IN  IF name \in {N_Read, N_View}
        THEN LET m3 == [m2 EXCEPT !.read_calls = @ + 1]
             IN  IF path # <<>>
                 THEN [m3 EXCEPT !.files_read = Append(@, path),
                                 !.sidecar_reads =
                                    IF EndsWith(path, EXT_FMM) THEN @ + 1 ELSE @,
                                 !.source_reads =
                                    IF EndsWith(path, EXT_FMM) THEN @ ELSE @ + 1]
                 ELSE m3
        ELSE m2

RECURSIVE Parse18Content(_, _)
\* `for item in content:`; item.get raises on an item that is not an object
Parse18Content(m, content) ==
    IF content = <<>> THEN [m |-> m, ok |-> TRUE]
    ELSE LET item == Head(content) IN
         IF item.json # "obj" THEN [m |-> m, ok |-> FALSE]
         ELSE Parse18Content(
                  IF item.type = "tool_use" THEN Parse18ToolUse(m, item)
                  ELSE IF item.type = "text"
                       THEN [m EXCEPT !.response = GetStr(item.text, <<>>)]
                       ELSE m,
                  Tail(content))

\* `elif msg_type == "result":`
Parse18Result(m, data18) ==
    [m EXCEPT !.input_tokens = Get(data18.usage.input_tokens, 0),
              !.output_tokens = Get(data18.usage.output_tokens, 0),
              !.cache_read_tokens = Get(data18.usage.cache_read_input_tokens, 0),
              !.total_cost_usd = Get(data18.total_cost_usd, 0),
              !.num_turns = Get(data18.num_turns, 0),
              !.duration_ms = Get(data18.duration_ms, 0),
              !.response = IF m.response \in {<<>>, NullStr}
                           THEN GetStr(data18.result, <<>>) ELSE @]

\* One iteration of `for line in f:` of exp18 parse_stream_json
parse_stream_json_18(m, data18) ==
    IF data18.json \in {"blank", "garbage"} THEN [m |-> m, ok |-> TRUE]
    ELSE IF data18.json = "nonobj" THEN [m |-> m, ok |-> FALSE]
    ELSE IF data18.type = "assistant" THEN Parse18Content(m, data18.message.content)
    ELSE IF data18.type = "result" THEN [m |-> Parse18Result(m, data18), ok |-> TRUE]
    ELSE [m |-> m, ok |-> TRUE]

\* return dict(metrics)
Parse18Return(m) == m

-----------------------------------------------------------------------------
(* proofs/harness: parse-results.py, a script that reads one stream *)

\* The number of characters of a command kept in its pseudo-path
TRUNC == 100

BASH_PREFIX == <<"(", "b", "a", "s", "h", ")", " ">>
V_cat == <<"c", "a", "t", " ">>
V_head == <<"h", "e", "a", "d", " ">>
V_tail == <<"t", "a", "i", "l", " ">>
V_less == <<"l", "e", "s", "s", " ">>
K_index_json == <<"i", "n", "d", "e", "x", ".", "j", "s", "o", "n">>
K_file_path == <<"f", "i", "l", "e", "_", "p", "a", "t", "h">>
K_command == <<"c", "o", "m", "m", "a", "n", "d">>
K_path == <<"p", "a", "t", "h">>

\* The locals of the script before its loop
HarnessInit ==
    [tool_calls |-> <<>>, files_read |-> <<>>, assistant_text |-> <<>>,
     total_input_tokens |-> 0, total_output_tokens |-> 0, total_cost |-> 0]

\* any(x in cmd for x in ["cat ", "head ", "tail ", "less "])
IsReadLike(cmd) == \E x \in {V_cat, V_head, V_tail, V_less} : Contains(cmd, x)

\* cmd[:n]
Prefix(cmd, n) == SubSeq(cmd, 1, IF Len(cmd) < n THEN Len(cmd) ELSE n)

\* Mutant of PseudoPath: the whole command is kept.
PseudoPath_WholeCommand(cmd) == BASH_PREFIX \o cmd

\* f"(bash) {cmd[:100]}"
PseudoPath(cmd) == BASH_PREFIX \o Prefix(cmd, TRUNC)

\* The body of `elif block.get("type") == "tool_use":` for one block
HarnessToolUse(m, block) ==
    LET tool_name == GetStr(block.name, <<>>)
        tool_input == block.input
        fp == GetStr(tool_input.file_path, <<>>)
        cmd == GetStr(tool_input.command, <<>>)
        m1 == [m EXCEPT !.tool_calls = Append(@, [tool |-> tool_name, input |-> tool_input])]
    IN  IF tool_name = N_Read
        THEN (IF fp # <<>> THEN [m1 EXCEPT !.files_read = Append(@, fp)] ELSE m1)
        ELSE IF tool_name = N_Bash
        THEN (IF IsReadLike(cmd)
              THEN [m1 EXCEPT !.files_read = Append(@, PseudoPath(cmd))] ELSE m1)
        ELSE m1

RECURSIVE HarnessContent(_, _)
\* `for block in content:`; block.get raises on a block that is not an object
HarnessContent(m, content) ==
    IF content = <<>> THEN [m |-> m, ok |-> TRUE]
    ELSE LET block == Head(content) IN
         IF block.json # "obj" THEN [m |-> m, ok |-> FALSE]
         ELSE HarnessContent(
                  IF block.type = "text"
                  THEN [m EXCEPT !.assistant_text = Append(@, GetStr(block.text, <<>>))]
                  ELSE IF block.type = "tool_use" THEN HarnessToolUse(m, block)
                  ELSE m,
                  Tail(content))

\* `if etype == "assistant":`: the usage is added before the blocks are read
HarnessAssistant(m, event) ==
    LET usage == event.message.usage
    IN  HarnessContent(
            [m EXCEPT !.total_input_tokens = @ + Get(usage.input_tokens, 0)
                                               + Get(usage.cache_creation_input_tokens, 0)
                                               + Get(usage.cache_read_input_tokens, 0),
                      !.total_output_tokens = @ + Get(usage.output_tokens, 0)],
            event.message.content)

\* One entry of modelUsage: cost in 1/100000 dollar, token counts
ModelUsage(cost, i, cc, cr, o) ==
    [costUSD |-> cost, inputTokens |-> i, cacheCreationInputTokens |-> cc,
     cacheReadInputTokens |-> cr, outputTokens |-> o]

RECURSIVE HarnessResult(_, _)
\* `for _model, usage in model_usage.items():`
HarnessResult(m, model_usage) ==
    IF model_usage = <<>> THEN m
    ELSE LET usage == Head(model_usage)
             inp == Get(usage.inputTokens, 0) + Get(usage.cacheCreationInputTokens, 0)
                    + Get(usage.cacheReadInputTokens, 0)
             out == Get(usage.outputTokens, 0)
         IN  HarnessResult(
                [m EXCEPT !.total_cost = Get(usage.costUSD, @),
                          !.total_input_tokens = IF inp > @ THEN inp ELSE @,
                          !.total_output_tokens = IF out > @ THEN out ELSE @],
                Tail(model_usage))

\* One iteration of `for line in f:` of the script
harness_parse(m, event) ==
    IF event.json \in {"blank", "garbage"} THEN [m |-> m, ok |-> TRUE]
    ELSE IF event.json = "nonobj" THEN [m |-> m, ok |-> FALSE]
    ELSE LET a == IF event.type = "assistant" THEN HarnessAssistant(m, event)
                  ELSE [m |-> m, ok |-> TRUE]
         IN  IF ~a.ok THEN a
             ELSE IF event.type = "result"
                  THEN [m |-> HarnessResult(a.m, event.modelUsage), ok |-> TRUE]
                  ELSE a

\* One character of a JSON string as json.dumps writes it
EscapeChar(c) == IF c = "\"" THEN <<"\\", "\"">> ELSE IF c = "\\" THEN <<"\\", "\\">> ELSE <<c>>

RECURSIVE Escape(_)
\* The characters of a JSON string as json.dumps writes them: a string without a
\* quote or backslash is written as it is
Escape(str) ==
    IF \A i \in 1..Len(str) : str[i] \notin {"\"", "\\"} THEN str
    ELSE EscapeChar(Head(str)) \o Escape(Tail(str))

\* "key": "value" of json.dumps
Member(key, value) == <<"\"">> \o key \o <<"\"", ":", " ", "\"">> \o Escape(value) \o <<"\"">>

RECURSIVE JoinWith(_, _)
\* sep.join(parts)
JoinWith(parts, sep) ==
    IF parts = <<>> THEN <<>>
    ELSE IF Len(parts) = 1 THEN parts[1]
    ELSE parts[1] \o sep \o JoinWith(Tail(parts), sep)

\* json.dumps(tc.get("input", {})) of a tool input: its present keys in the
\* order file_path, command, path
Dumps(inp) ==
    LET members ==
            (IF inp.file_path # MissingStr THEN <<Member(K_file_path, inp.file_path)>> ELSE <<>>)
            \o (IF inp.command # MissingStr THEN <<Member(K_command, inp.command)>> ELSE <<>>)
            \o (IF inp.path # MissingStr THEN <<Member(K_path, inp.path)>> ELSE <<>>)
    IN  <<"{">> \o JoinWith(members, <<",", " ">>) \o <<"}">>

\* full_text = "\n".join(assistant_text)
FullText(assistant_text) == JoinWith(assistant_text, <<"\n">>)

\* Mutant of discovered_fmm: only the assistant text is searched.
discovered_fmm_TextOnly(tool_calls, full_text) == Contains(full_text, EXT_FMM)

\* discovered_fmm = any(".fmm" in json.dumps(...) for tc in tool_calls) or ".fmm" in full_text
discovered_fmm(tool_calls, full_text) ==
    \/ \E i \in 1..Len(tool_calls) : Contains(Dumps(tool_calls[i].input), EXT_FMM)
    \/ Contains(full_text, EXT_FMM)

\* used_manifest = any("index.json" in ... and ".fmm" in ... for tc in tool_calls)
used_manifest(tool_calls) ==
    \E i \in 1..Len(tool_calls) :
        /\ Contains(Dumps(tool_calls[i].input), K_index_json)
        /\ Contains(Dumps(tool_calls[i].input), EXT_FMM)

\* tool_counts: the number of calls by tool name
ToolCounts(tool_calls) ==
    [n \in {tool_calls[i].tool : i \in 1..Len(tool_calls)} |->
        Cardinality({i \in 1..Len(tool_calls) : tool_calls[i].tool = n})]

\* len(full_text.splitlines()) for a text whose only line boundary is "\n"
SplitLinesCount(text) ==
    IF text = <<>> THEN 0
    ELSE Cardinality({i \in 1..Len(text) : text[i] = "\n" /\ i < Len(text)}) + 1

\* round(total_cost, 4) of a cost given in 1/100000 dollar, a tie going to the
\* even digit
Round4(cost) ==
    LET q == cost \div 10
        r == cost % 10
    IN  10 * (IF r > 5 \/ (r = 5 /\ q % 2 = 1) THEN q + 1 ELSE q)

\* The result the script writes; unique_files = sorted(set(files_read)) is kept as
\* the set
HarnessReturn(m) ==
    LET full_text == FullText(m.assistant_text)
        unique_files == {m.files_read[i] : i \in 1..Len(m.files_read)}
    IN  [tool_calls_count |-> Len(m.tool_calls),
         tool_calls_by_type |-> ToolCounts(m.tool_calls),
         tool_calls |-> m.tool_calls,
         files_read |-> unique_files,
         files_read_count |-> Cardinality(unique_files),
         tokens_in |-> m.total_input_tokens,
         tokens_out |-> m.total_output_tokens,
         tokens_total |-> m.total_input_tokens + m.total_output_tokens,
         cost_usd |-> Round4(m.total_cost),
         discovered_fmm |-> discovered_fmm(m.tool_calls, full_text),
         used_manifest |-> used_manifest(m.tool_calls),
         response_lines |-> SplitLinesCount(full_text)]

-----------------------------------------------------------------------------
(* The parsers as a state machine: one stream, read line by line *)

Parsers == {"exp15", "exp15i", "exp16", "exp17", "exp18"}

ParserInit ==
    /\ lines = <<>>
    /\ pc = [p \in Parsers |-> "run"]
    /\ m15 = ParseRunInit
    /\ m15i = ParseRunInit
    /\ m16 = ParseJsonlInit
    /\ m17 = ParseStreamInit
    /\ m18 = Parse18Init
    /\ ret15 = <<>>
    /\ ret15i = <<>>
    /\ ret16 = <<>>
    /\ ret17 = <<>>
    /\ ret18 = <<>>

ScorerIdle ==
    /\ answer = <<>>
    /\ truth = <<>>
    /\ score16 = <<>>
    /\ score17 = <<>>

\* No task is being scored
TaskIdle ==
    /\ task = [scoring |-> S_absent, ground_truth |-> GTAbsent]
    /\ result16 = <<>>
    /\ result17 = <<>>

\* The state machines other than the parsers and score_exact_path are idle
\* data = defaultdict(...): the empty dataset
NoData == [cond \in {} |-> <<>>]

\* No dataset is being aggregated
AggIdle ==
    /\ data = NoData
    /\ averages = <<>>
    /\ stats = <<>>

\* The percentage deltas, none of them computed
NoDeltas ==
    [tool_delta |-> <<>>, cost_delta |-> <<>>, metric_delta |-> <<>>,
     est_cost_delta |-> <<>>, pct_change |-> <<>>]

\* No comparison is being made
DeltaIdle ==
    /\ a_runs = <<>>
    /\ b_runs = <<>>
    /\ deltas = NoDeltas

\* No result directory is being loaded
LoadIdle ==
    /\ files = <<>>
    /\ fstate = <<>>
    /\ workers = <<>>

\* The harness script has not been started
HarnessIdle ==
    /\ hlines = <<>>
    /\ hpc = "idle"
    /\ hm = HarnessInit
    /\ hret = <<>>

\* results = {c: {} for c in conditions}, and no result file listed
MainIdle ==
    /\ rfiles = <<>>
    /\ rseen = <<>>
    /\ results16 = [c \in {"A", "B"} |-> <<>>]
    /\ results17 = [c \in {"A", "B"} |-> <<>>]

RestIdle == TaskIdle /\ AggIdle /\ DeltaIdle /\ LoadIdle /\ HarnessIdle /\ MainIdle

Init == ParserInit /\ ScorerIdle /\ RestIdle

\* The state of parser p after one loop iteration that ended ok or raised
AfterStep(p, r) == IF pc[p] # "run" THEN pc[p] ELSE IF r.ok THEN "run" ELSE "error"

\* Every parser still in its loop reads the next line of the stream.
ReadLine(l) ==
    LET r15 == parse_run_15(m15, Line(l))
        r15i == parse_run_15i(m15i, Line(l))
        r16 == parse_jsonl(m16, Line(l))
        r17 == parse_stream_json(m17, Line(l))
        r18 == parse_stream_json_18(m18, Line(l))
    IN  /\ Len(lines) < MaxLines
        /\ \E p \in Parsers : pc[p] = "run"
        /\ \A p \in Parsers : pc[p] # "done"
        /\ lines' = Append(lines, l)
        /\ m15' = IF pc["exp15"] = "run" THEN r15.m ELSE m15
        /\ m15i' = IF pc["exp15i"] = "run" THEN r15i.m ELSE m15i
        /\ m16' = IF pc["exp16"] = "run" THEN r16.m ELSE m16
        /\ m17' = IF pc["exp17"] = "run" THEN r17.m ELSE m17
        /\ m18' = IF pc["exp18"] = "run" THEN r18.m ELSE m18
        /\ pc' = [p \in Parsers |->
                    CASE p = "exp15" -> AfterStep(p, r15)
                      [] p = "exp15i" -> AfterStep(p, r15i)
                      [] p = "exp16" -> AfterStep(p, r16)
                      [] p = "exp17" -> AfterStep(p, r17)
                      [] p = "exp18" -> AfterStep(p, r18)]
        /\ UNCHANGED <<ret15, ret15i, ret16, ret17, ret18>>
        /\ UNCHANGED scorerVars
        /\ UNCHANGED restVars

\* End of the stream: every parser still in its loop leaves it and returns.
Finish ==
    /\ \E p \in Parsers : pc[p] = "run"
    /\ pc' = [p \in Parsers |-> IF pc[p] = "run" THEN "done" ELSE pc[p]]
    /\ ret15' = IF pc["exp15"] = "run" THEN <<ParseRunReturn(m15)>> ELSE ret15
    /\ ret15i' = IF pc["exp15i"] = "run" THEN <<ParseRunReturn(m15i)>> ELSE ret15i
    /\ ret16' = IF pc["exp16"] = "run" THEN <<ParseJsonlReturn(m16)>> ELSE ret16
    /\ ret17' = IF pc["exp17"] = "run" THEN <<ParseStreamReturn(m17)>> ELSE ret17
    /\ ret18' = IF pc["exp18"] = "run" THEN <<Parse18Return(m18)>> ELSE ret18
    /\ UNCHANGED <<lines, m15, m15i, m16, m17, m18>>
    /\ UNCHANGED scorerVars
    /\ UNCHANGED restVars

Next ==
    \/ \E l \in Lines : ReadLine(l)
    \/ Finish

Spec == Init /\ [][Next]_vars

-----------------------------------------------------------------------------
(* The scorers as a state machine: inputs drawn at the start, then scored *)

ScoreAlphabet == {" ", BACKTICK, ".", "/", "a"}

\* The strings over ScoreAlphabet of length at most n
Strs(n) == UNION {[1..k -> ScoreAlphabet] : k \in 0..n}

ScoreInit ==
    /\ ParserInit
    /\ answer \in Strs(MaxStrLen)
    /\ truth \in Strs(MaxStrLen)
    /\ score16 = <<>>
    /\ score17 = <<>>
    /\ RestIdle

ScoreExactPath16 ==
    /\ score16 = <<>>
    /\ score16' = <<score_exact_path_16(answer, truth)>>
    /\ UNCHANGED <<answer, truth, score17>>
    /\ UNCHANGED parserVars
    /\ UNCHANGED restVars

ScoreExactPath17 ==
    /\ score17 = <<>>
    /\ score17' = <<score_exact_path_17(answer, truth)>>
    /\ UNCHANGED <<answer, truth, score16>>
    /\ UNCHANGED parserVars
    /\ UNCHANGED restVars

ScoreNext == ScoreExactPath16 \/ ScoreExactPath17

ScoreSpec == ScoreInit /\ [][ScoreNext]_vars

-----------------------------------------------------------------------------
(* score_result as a state machine: a task and an answer drawn at the start *)

\* Expected items of set_match tasks
I_srcB == <<"s", "/", "B", ".", "t", "s">>
I_tsx == <<"b", ".", "t", "s", "x">>
I_js == <<"e", ".", "j", "s">>
I_sp == <<" ", "b">>
I_dir == <<"b", "/">>

Items == {I_srcB, I_tsx, I_js, I_sp, I_dir}

\* The lists of at most n expected items
ItemLists(n) == UNION {[1..k -> Items] : k \in 0..n}

\* Answers given to set_match tasks
A_b == <<"b">>
A_Be == <<"B", " ", "e">>
A_tsx == <<"b", ".", "t", "s", "x">>
A_sp == <<" ", "b">>
A_bx == <<"b", "x">>

SetAnswers == {<<>>, A_b, A_Be, A_tsx, A_sp, A_bx}

\* Characters of the answers given to exact_number tasks
NumAlphabet == {"4", "2", "0", "a", " ", "_"}

\* The strings over NumAlphabet of length at most n
NumStrs(n) == UNION {[1..k -> NumAlphabet] : k \in 0..n}

\* Expected numbers of exact_number tasks
Nums == {0, 2, 4, 24, 42, 420}

\* A scoring tag that score_result does not implement
S_fuzzy == "fuzzy"

\* The ground truths of every kind
GroundTruths(k) ==
    {GTStr(str_) : str_ \in Strs(1) \cup {<<"4", "2">>}}
        \cup {GTList(list) : list \in ItemLists(k)}
        \cup {GTNum(num) : num \in Nums}
        \cup {GTNone, GTAbsent}

\* The tasks: any tag with any ground truth
Tasks ==
    [scoring : {S_exact_path, S_set_match, S_exact_number, S_fuzzy, S_absent},
     ground_truth : GroundTruths(MaxItems)]

\* The answers tried on a task: those that exercise its strategy
AnswersFor(t) ==
    CASE t.scoring = S_exact_path -> Strs(MaxStrLen)
      [] t.scoring = S_exact_number -> NumStrs(MaxStrLen)
      [] OTHER -> SetAnswers

ResultInit ==
    /\ ParserInit
    /\ truth = <<>>
    /\ score16 = <<>>
    /\ score17 = <<>>
    /\ task \in Tasks
    /\ answer \in AnswersFor(task)
    /\ result16 = <<>>
    /\ result17 = <<>>
    /\ AggIdle
    /\ DeltaIdle
    /\ LoadIdle
    /\ HarnessIdle
    /\ MainIdle

ScoreResult16 ==
    /\ result16 = <<>>
    /\ result16' = <<score_result(16, answer, task)>>
    /\ UNCHANGED <<task, result17>>
    /\ UNCHANGED parserVars
    /\ UNCHANGED scorerVars
    /\ UNCHANGED aggVars
    /\ UNCHANGED deltaVars
    /\ UNCHANGED loadVars
    /\ UNCHANGED harnessVars
    /\ UNCHANGED mainVars

ScoreResult17 ==
    /\ result17 = <<>>
    /\ result17' = <<score_result(17, answer, task)>>
    /\ UNCHANGED <<task, result16>>
    /\ UNCHANGED parserVars
    /\ UNCHANGED scorerVars
    /\ UNCHANGED aggVars
    /\ UNCHANGED deltaVars
    /\ UNCHANGED loadVars
    /\ UNCHANGED harnessVars
    /\ UNCHANGED mainVars

ResultNext == ScoreResult16 \/ ScoreResult17

ResultSpec == ResultInit /\ [][ResultNext]_vars

-----------------------------------------------------------------------------
(* Aggregation as a state machine: runs are added to the dataset, then averaged *)

\* A metrics dict as parse_run returns it, with the keys the aggregation reads
Run(tool_calls, cost_usd, manifest_accessed) ==
    [tool_calls |-> PyInt(tool_calls), cost_usd |-> Round(cost_usd, 1),
     manifest_accessed |-> manifest_accessed]

\* The runs added to a dataset
Runs ==
    {Run(1, 1, FALSE), Run(2, 2, TRUE),
     Run(3, Pow2(MantBits) - 1, FALSE), Run(1, 43, TRUE)}

\* The conditions and tasks that have result files
RunConditions == {"A", "B"}
RunTasks == {"t1", "t2"}

\* data[cond][task_name].append(metrics) on the tasks of one condition
AppendRun(entries, task_name, metrics) ==
    IF \E i \in 1..Len(entries) : entries[i].task = task_name
    THEN [i \in 1..Len(entries) |->
            IF entries[i].task = task_name
            THEN [entries[i] EXCEPT !.runs = Append(@, metrics)]
            ELSE entries[i]]
    ELSE Append(entries, [task |-> task_name, runs |-> <<metrics>>])

\* The number of runs in the dataset
RunCount(d) ==
    LET RECURSIVE Count(_)
        Count(S) == IF S = {} THEN 0
                    ELSE LET c == CHOOSE x \in S : TRUE
                         IN  Len(Flatten(d[c])) + Count(S \ {c})
    IN  Count(DOMAIN d)

AggInit ==
    /\ ParserInit
    /\ ScorerIdle
    /\ TaskIdle
    /\ AggIdle
    /\ DeltaIdle
    /\ LoadIdle
    /\ HarnessIdle
    /\ MainIdle

\* The place of a condition in CONDITIONS
CondIndex(cond) == CHOOSE i \in 1..Len(CONDITIONS) : CONDITIONS[i] = cond

\* The place of a task in the sorted file names of a condition
TaskRank(task_name) == IF task_name = "t1" THEN 1 ELSE 2

\* `for cond in CONDITIONS:` and `for f in sorted(...)`: the dataset is filled
\* condition by condition and, in a condition, in the order of the file names
InLoadOrder(cond, task_name) ==
    /\ \A c \in DOMAIN data : CondIndex(c) <= CondIndex(cond)
    /\ cond \in DOMAIN data =>
          \A i \in 1..Len(data[cond]) : TaskRank(data[cond][i].task) <= TaskRank(task_name)

\* load_dataset stores the metrics of one more result file
AddRun(cond, task_name, metrics) ==
    /\ averages = <<>>
    /\ stats = <<>>
    /\ RunCount(data) < MaxRuns
    /\ InLoadOrder(cond, task_name)
    /\ data' = IF cond \in DOMAIN data
               THEN [data EXCEPT ![cond] = AppendRun(@, task_name, metrics)]
               ELSE [c \in DOMAIN data \cup {cond} |->
                        IF c = cond THEN AppendRun(<<>>, task_name, metrics) ELSE data[c]]
    /\ UNCHANGED <<averages, stats>>
    /\ UNCHANGED parserVars
    /\ UNCHANGED scorerVars
    /\ UNCHANGED taskVars
    /\ UNCHANGED deltaVars
    /\ UNCHANGED loadVars
    /\ UNCHANGED harnessVars
    /\ UNCHANGED mainVars

\* data[cond]: the lookup puts a condition without tasks into the defaultdict
TouchCond(cond) ==
    /\ averages = <<>>
    /\ stats = <<>>
    /\ cond \notin DOMAIN data
    /\ \A c \in DOMAIN data : CondIndex(c) < CondIndex(cond)
    /\ data' = [c \in DOMAIN data \cup {cond} |-> IF c = cond THEN <<>> ELSE data[c]]
    /\ UNCHANGED <<averages, stats>>
    /\ UNCHANGED parserVars
    /\ UNCHANGED scorerVars
    /\ UNCHANGED taskVars
    /\ UNCHANGED deltaVars
    /\ UNCHANGED loadVars
    /\ UNCHANGED harnessVars
    /\ UNCHANGED mainVars

\* data[cond][task_name]: the lookup puts a task with an empty run list into
\* the defaultdict of the condition
TouchTask(cond, task_name) ==
    /\ averages = <<>>
    /\ stats = <<>>
    /\ cond \in DOMAIN data
    /\ \A c \in DOMAIN data : CondIndex(c) <= CondIndex(cond)
    /\ \A i \in 1..Len(data[cond]) : TaskRank(data[cond][i].task) < TaskRank(task_name)
    /\ data' = [data EXCEPT ![cond] = Append(@, [task |-> task_name, runs |-> <<>>])]
    /\ UNCHANGED <<averages, stats>>
    /\ UNCHANGED parserVars
    /\ UNCHANGED scorerVars
    /\ UNCHANGED taskVars
    /\ UNCHANGED deltaVars
    /\ UNCHANGED loadVars
    /\ UNCHANGED harnessVars
    /\ UNCHANGED mainVars

ComputeAverages ==
    /\ averages = <<>>
    /\ averages' = <<compute_averages(data)>>
    /\ UNCHANGED <<data, stats>>
    /\ UNCHANGED parserVars
    /\ UNCHANGED scorerVars
    /\ UNCHANGED taskVars
    /\ UNCHANGED deltaVars
    /\ UNCHANGED loadVars
    /\ UNCHANGED harnessVars
    /\ UNCHANGED mainVars

\* main calls compute_stats after compute_averages
ComputeStats ==
    /\ averages # <<>>
    /\ stats = <<>>
    /\ stats' = <<compute_stats(data)>>
    /\ UNCHANGED <<data, averages>>
    /\ UNCHANGED parserVars
    /\ UNCHANGED scorerVars
    /\ UNCHANGED taskVars
    /\ UNCHANGED deltaVars
    /\ UNCHANGED loadVars
    /\ UNCHANGED harnessVars
    /\ UNCHANGED mainVars

AggNext ==
    \/ \E cond \in RunConditions : \E task_name \in RunTasks : \E metrics \in Runs :
            AddRun(cond, task_name, metrics)
    \/ \E cond \in RunConditions : TouchCond(cond)
    \/ \E cond \in RunConditions : \E task_name \in RunTasks : TouchTask(cond, task_name)
    \/ ComputeAverages
    \/ ComputeStats

AggSpec == AggInit /\ [][AggNext]_vars

-----------------------------------------------------------------------------
(* The percentage deltas between a baseline and a treatment *)

\* A delta: text is "" for a number and the text printed in its place otherwise
DeltaValue(value) == [text |-> "", value |-> value]

DeltaText(text) == [text |-> text, value |-> PyInt(0)]

\* print_comparison: tool_delta
tool_delta(base, iso) ==
    DeltaValue(Mul(TrueDiv(Sub(iso.tool_calls, base.tool_calls), Max(base.tool_calls, PyInt(1))),
                   PyInt(100)))

\* print_comparison: cost_delta; 0.01 is the float nearest to 1/100
cost_delta(base, iso) ==
    DeltaValue(Mul(TrueDiv(Sub(iso.cost_usd, base.cost_usd), Max(base.cost_usd, Round(1, 100))),
                   PyInt(100)))

\* exp16 main: the delta of one averaged metric
metric_delta(a_val, b_val) ==
    IF Less(PyInt(0), a_val)
    THEN DeltaValue(Mul(TrueDiv(Sub(b_val, a_val), a_val), PyInt(100)))
    ELSE DeltaText("n/a")

\* exp16 main: the estimated cost of one run at the per-token prices
RunCost(r) ==
    Add(Add(Add(TrueDiv(Mul(r.input_tokens, PyInt(3)), PyInt(1000000)),
                TrueDiv(Mul(r.output_tokens, PyInt(15)), PyInt(1000000))),
            TrueDiv(Mul(r.cache_read_tokens, Round(3, 10)), PyInt(1000000))),
        TrueDiv(Mul(r.cache_create_tokens, Round(15, 4)), PyInt(1000000)))

\* exp16 main: a_cost, b_cost
EstCost(runs) == Sum([i \in 1..Len(runs) |-> RunCost(runs[i])])

\* exp16 main: the delta of the estimated cost
est_cost_delta(a_cost, b_cost) ==
    DeltaValue(Mul(TrueDiv(Sub(b_cost, a_cost), a_cost), PyInt(100)))

\* harness compare-results: pct_change(control_val, treatment_val)
pct_change(control_val, treatment_val) ==
    IF NumEq(control_val, PyInt(0)) THEN DeltaText("N/A")
    ELSE DeltaValue(Mul(TrueDiv(Sub(treatment_val, control_val), control_val), PyInt(100)))

\* A run with the fields the comparisons read
DeltaRun(tool_calls, cost_usd, input_tokens, output_tokens, cache_read_tokens, cache_create_tokens) ==
    [tool_calls |-> PyInt(tool_calls), cost_usd |-> cost_usd, manifest_accessed |-> FALSE,
     input_tokens |-> PyInt(input_tokens), output_tokens |-> PyInt(output_tokens),
     cache_read_tokens |-> PyInt(cache_read_tokens),
     cache_create_tokens |-> PyInt(cache_create_tokens)]

\* The runs compared: one without any usage, two with
DeltaRuns ==
    {DeltaRun(0, Round(0, 1), 0, 0, 0, 0),
     DeltaRun(5, Round(1, 2), 5, 1, 0, 0),
     DeltaRun(2, Round(1, 128), 0, 0, 3, 1)}

\* The non-empty sequences of at most n runs
RunSeqs(n) == UNION {[1..k -> DeltaRuns] : k \in 1..n}

DeltaInit ==
    /\ ParserInit
    /\ ScorerIdle
    /\ TaskIdle
    /\ AggIdle
    /\ a_runs \in RunSeqs(MaxDeltaRuns)
    /\ b_runs \in RunSeqs(MaxDeltaRuns)
    /\ deltas = NoDeltas
    /\ LoadIdle
    /\ HarnessIdle
    /\ MainIdle

\* The variables a delta computation leaves alone
DeltaFrame ==
    /\ UNCHANGED <<a_runs, b_runs>>
    /\ UNCHANGED parserVars
    /\ UNCHANGED scorerVars
    /\ UNCHANGED taskVars
    /\ UNCHANGED aggVars
    /\ UNCHANGED loadVars
    /\ UNCHANGED harnessVars
    /\ UNCHANGED mainVars

ToolDelta ==
    /\ deltas.tool_delta = <<>>
    /\ deltas' = [deltas EXCEPT !.tool_delta = <<tool_delta(AveragesOf(a_runs), AveragesOf(b_runs))>>]
    /\ DeltaFrame

CostDelta ==
    /\ deltas.cost_delta = <<>>
    /\ deltas' = [deltas EXCEPT !.cost_delta = <<cost_delta(AveragesOf(a_runs), AveragesOf(b_runs))>>]
    /\ DeltaFrame

MetricDelta ==
    /\ deltas.metric_delta = <<>>
    /\ deltas' = [deltas EXCEPT !.metric_delta =
            <<metric_delta(TrueDiv(Sum(Column(a_runs, "input_tokens")), PyInt(Len(a_runs))),
                           TrueDiv(Sum(Column(b_runs, "input_tokens")), PyInt(Len(b_runs))))>>]
    /\ DeltaFrame

EstCostDelta ==
    /\ deltas.est_cost_delta = <<>>
    /\ deltas' = [deltas EXCEPT !.est_cost_delta = <<est_cost_delta(EstCost(a_runs), EstCost(b_runs))>>]
    /\ DeltaFrame

PctChange ==
    /\ deltas.pct_change = <<>>
    /\ deltas' = [deltas EXCEPT !.pct_change = <<pct_change(a_runs[1].tool_calls, b_runs[1].tool_calls)>>]
    /\ DeltaFrame

DeltaNext == ToolDelta \/ CostDelta \/ MetricDelta \/ EstCostDelta \/ PctChange

DeltaSpec == DeltaInit /\ [][DeltaNext]_vars

-----------------------------------------------------------------------------
(* exp15-isolated load_dataset (and the same loop in exp15 main): the result
   files of a directory are parsed and their metrics collected.  The code runs
   the invocations of parse_run one after another; here they may also overlap,
   each invocation with its own locals, and a record is stored when its
   invocation has returned. *)

STEM_t_run1 == <<"t", "_", "r", "u", "n", "1">>
STEM_t_run2 == <<"t", "_", "r", "u", "n", "2">>
STEM_notes == <<"n", "o", "t", "e", "s">>
SEP_run == <<"_", "r", "u", "n">>

\* The result files: condition directory and stem
FileTable ==
    [a1 |-> [cond |-> "A", stem |-> STEM_t_run1],
     a2 |-> [cond |-> "A", stem |-> STEM_t_run2],
     b1 |-> [cond |-> "B", stem |-> STEM_t_run1],
     an |-> [cond |-> "A", stem |-> STEM_notes]]

FileIds == DOMAIN FileTable

\* The positions at which sep occurs in s
Occurrences(s, sep) ==
    {i \in 1..(Len(s) - Len(sep) + 1) : SubSeq(s, i, i + Len(sep) - 1) = sep}

\* s.rsplit(sep, 1)
RSplit1(s, sep) ==
    IF Occurrences(s, sep) = {} THEN <<s>>
    ELSE LET i == CHOOSE k \in Occurrences(s, sep) : \A j \in Occurrences(s, sep) : j <= k
         IN  <<SubSeq(s, 1, i - 1), SubSeq(s, i + Len(sep), Len(s))>>

\* parts = f.stem.rsplit("_run", 1)
Parts(f) == RSplit1(FileTable[f].stem, SEP_run)

\* The lines the result files are made of
LoadLines == {"readManifest", "resultFull", "nonobj"}

\* The streams of at most n lines
Streams(n) == UNION {[1..k -> LoadLines] : k \in 0..n}

\* Mutant of Invoke: metrics is a module-level accumulator that is never reset
Invoke_KeepsLeftover(leftover) == leftover

\* metrics = {...}: each call of parse_run builds its metrics anew, whatever the
\* call before it left behind
Invoke(leftover) == ParseRunInit

\* data[cond][task_name].append(metrics)
StoreRun(d, cond, task_name, metrics) ==
    IF cond \in DOMAIN d
    THEN [d EXCEPT ![cond] = AppendRun(@, task_name, metrics)]
    ELSE [c \in DOMAIN d \cup {cond} |->
            IF c = cond THEN AppendRun(<<>>, task_name, metrics) ELSE d[c]]

Workers == 1..MaxWorkers

IdleWorker == [file |-> "idle", pos |-> 0, metrics |-> ParseRunInit]

LoadInit ==
    /\ ParserInit
    /\ ScorerIdle
    /\ TaskIdle
    /\ AggIdle
    /\ DeltaIdle
    /\ \E s1 \in Streams(MaxFileLines), s2 \in Streams(MaxFileLines) :
            files = [a1 |-> s1, a2 |-> s2, b1 |-> <<"resultFull">>,
                     an |-> <<"readManifest">>]
    /\ fstate = [f \in FileIds |-> "todo"]
    /\ workers = [w \in Workers |-> IdleWorker]
    /\ HarnessIdle
    /\ MainIdle

\* The variables load_dataset leaves alone
LoadFrame ==
    /\ UNCHANGED files
    /\ UNCHANGED <<averages, stats>>
    /\ UNCHANGED parserVars
    /\ UNCHANGED scorerVars
    /\ UNCHANGED taskVars
    /\ UNCHANGED deltaVars
    /\ UNCHANGED harnessVars
    /\ UNCHANGED mainVars

\* An exception of parse_run has left load_dataset
Aborted == \E f \in FileIds : fstate[f] = "raised"

\* if len(parts) != 2: continue
SkipFile(f) ==
    /\ ~Aborted
    /\ fstate[f] = "todo"
    /\ Len(Parts(f)) # 2
    /\ fstate' = [fstate EXCEPT ![f] = "skipped"]
    /\ UNCHANGED <<workers, data>>
    /\ LoadFrame

\* parse_run(f) is called
OpenFile(w, f) ==
    /\ ~Aborted
    /\ workers[w].file = "idle"
    /\ fstate[f] = "todo"
    /\ Len(Parts(f)) = 2
    /\ fstate' = [fstate EXCEPT ![f] = "open"]
    /\ workers' = [workers EXCEPT ![w] =
            [file |-> f, pos |-> 0, metrics |-> Invoke(workers[w].metrics)]]
    /\ UNCHANGED data
    /\ LoadFrame

\* One iteration of `for line in f:` in an invocation
ParseLine(w) ==
    LET f == workers[w].file
        r == parse_run_15i(workers[w].metrics, Line(files[f][workers[w].pos + 1]))
    IN  /\ ~Aborted
        /\ f # "idle"
        /\ workers[w].pos < Len(files[f])
        /\ IF r.ok
           THEN /\ workers' = [workers EXCEPT ![w].pos = @ + 1, ![w].metrics = r.m]
                /\ UNCHANGED fstate
           ELSE /\ fstate' = [fstate EXCEPT ![f] = "raised"]
                /\ UNCHANGED workers
        /\ UNCHANGED data
        /\ LoadFrame

\* parse_run returns and its record is appended to data[cond][task_name]
StoreFile(w) ==
    LET f == workers[w].file
    IN  /\ ~Aborted
        /\ f # "idle"
        /\ workers[w].pos = Len(files[f])
        /\ data' = StoreRun(data, FileTable[f].cond, Parts(f)[1],
                            ParseRunReturn(workers[w].metrics))
        /\ fstate' = [fstate EXCEPT ![f] = "done"]
        /\ workers' = [workers EXCEPT ![w].file = "idle"]
        /\ LoadFrame

LoadNext ==
    \/ \E f \in FileIds : SkipFile(f)
    \/ \E w \in Workers : \E f \in FileIds : OpenFile(w, f)
    \/ \E w \in Workers : ParseLine(w)
    \/ \E w \in Workers : StoreFile(w)

LoadSpec == LoadInit /\ [][LoadNext]_vars

-----------------------------------------------------------------------------
(* The harness script as a state machine: one stream, read line by line *)

\* c repeated n times
Repeat(c, n) == [i \in 1..n |-> c]

\* Two read-like commands that agree on their first 100 characters, and one whose
\* verb comes after them
C_long1 == V_cat \o Repeat("a", TRUNC - Len(V_cat)) \o <<"x">>
C_long2 == V_cat \o Repeat("a", TRUNC - Len(V_cat)) \o <<"y">>
C_late == Repeat("b", TRUNC) \o <<" ">> \o V_less \o <<"z">>
P_index == <<"i", "n", "d", "e", "x", ".", "j", "s", "o", "n">>

H_long1 == Assistant(<<ToolUse(N_Bash, Input(MissingStr, C_long1, MissingStr))>>, NoUsage)
H_long2 == Assistant(<<ToolUse(N_Bash, Input(MissingStr, C_long2, MissingStr))>>, Usage(1, 1, 1, 1))
H_late == Assistant(<<ToolUse(N_Bash, Input(MissingStr, C_late, MissingStr))>>, NoUsage)
H_split ==
    Assistant(<<ToolUse(N_Glob, Input(MissingStr, MissingStr, P_sidecar)),
                ToolUse(N_Read, Input(P_index, MissingStr, MissingStr))>>, NoUsage)
H_result ==
    [Result(NoUsage, NONE, NONE, NONE, T_final) EXCEPT
        !.modelUsage = <<ModelUsage(12, 1, 1, 0, 9), ModelUsage(NONE, 9, NONE, NONE, NONE)>>]

HarnessLineTable ==
    [blank |-> L_blank,
     nonobj |-> L_nonobj,
     textMarker |-> L_textMarker,
     other |-> L_other,
     read |-> L_read,
     readManifest |-> L_readManifest,
     bash |-> L_bash,
     long1 |-> H_long1,
     long2 |-> H_long2,
     late |-> H_late,
     split |-> H_split,
     strBlock |-> L_strBlock,
     result |-> H_result]

HarnessLines == DOMAIN HarnessLineTable

HarnessLine(id) == HarnessLineTable[id]

HarnessSpecInit ==
    /\ ParserInit
    /\ ScorerIdle
    /\ TaskIdle
    /\ AggIdle
    /\ DeltaIdle
    /\ LoadIdle
    /\ hlines = <<>>
    /\ hpc = "run"
    /\ hm = HarnessInit
    /\ hret = <<>>
    /\ MainIdle

\* The variables the harness script leaves alone
HarnessFrame ==
    /\ UNCHANGED mainVars
    /\ UNCHANGED parserVars
    /\ UNCHANGED scorerVars
    /\ UNCHANGED taskVars
    /\ UNCHANGED aggVars
    /\ UNCHANGED deltaVars
    /\ UNCHANGED loadVars

\* The script reads the next line of the stream
HarnessReadLine(l) ==
    LET r == harness_parse(hm, HarnessLine(l))
    IN  /\ hpc = "run"
        /\ Len(hlines) < MaxHarnessLines
        /\ hlines' = Append(hlines, l)
        /\ hm' = r.m
        /\ hpc' = IF r.ok THEN "run" ELSE "error"
        /\ UNCHANGED hret
        /\ HarnessFrame

\* End of the stream: the script builds and writes its result
HarnessFinish ==
    /\ hpc = "run"
    /\ hpc' = "done"
    /\ hret' = <<HarnessReturn(hm)>>
    /\ UNCHANGED <<hlines, hm>>
    /\ HarnessFrame

HarnessNext ==
    \/ \E l \in HarnessLines : HarnessReadLine(l)
    \/ HarnessFinish

HarnessSpec == HarnessSpecInit /\ [][HarnessNext]_vars

-----------------------------------------------------------------------------
(* What a stream contains, read off the stream itself *)

\* The decoded lines read so far
StreamRead == [i \in 1..Len(lines) |-> Line(lines[i])]

\* The records of the stream that are JSON objects of the given type
IsRecord(e, type) == e.json = "obj" /\ e.type = type

\* The tool_use blocks of one record, in order
ToolUseBlocksOf(e) ==
    SelectSeq(e.message.content, LAMBDA b : b.json = "obj" /\ b.type = "tool_use")

RECURSIVE SumSeq(_)
\* The sum of a sequence of integers
SumSeq(ns) == IF ns = <<>> THEN 0 ELSE Head(ns) + SumSeq(Tail(ns))

\* The sum of F(e) over the records e of the stream that satisfy P
SumOver(stream, P(_), F(_)) ==
    SumSeq([i \in 1..Len(stream) |-> IF P(stream[i]) THEN F(stream[i]) ELSE 0])

\* The number of elements of a sequence that satisfy P
CountSeq(seq, P(_)) == Len(SelectSeq(seq, P))

\* The number of tool_use blocks in all assistant records of the stream
ToolUseCount(stream) ==
    SumOver(stream, LAMBDA e : IsRecord(e, "assistant"), LAMBDA e : Len(ToolUseBlocksOf(e)))

\* The same, leaving out the records that carry a _meta key
ToolUseCountNoMeta(stream) ==
    SumOver(stream, LAMBDA e : IsRecord(e, "assistant") /\ ~e.has_meta,
            LAMBDA e : Len(ToolUseBlocksOf(e)))

\* The tool name of a block, an absent name being ""
NameOf(b) == GetStr(b.name, <<>>)

\* The six categories of the classifier, by tool name
Category(n) ==
    CASE n = N_Read -> "read"
      [] n = N_Glob -> "glob"
      [] n = N_Grep -> "grep"
      [] n = N_Bash -> "shell"
      [] n \notin {N_Read, N_Glob, N_Grep, N_Bash}
         /\ (StartsWith(n, PFX_MCP) \/ StartsWith(n, PFX_FMM)) -> "mcp"
      [] OTHER -> "other"

\* The number of tool_use blocks of category cat in the assistant records of the stream
CategoryCount(stream, cat) ==
    SumOver(stream, LAMBDA e : IsRecord(e, "assistant"),
            LAMBDA e : CountSeq(ToolUseBlocksOf(e), LAMBDA b : Category(NameOf(b)) = cat))

\* The same, leaving out the records that carry a _meta key
CategoryCountNoMeta(stream, cat) ==
    SumOver(stream, LAMBDA e : IsRecord(e, "assistant") /\ ~e.has_meta,
            LAMBDA e : CountSeq(ToolUseBlocksOf(e), LAMBDA b : Category(NameOf(b)) = cat))

\* The stream has the line l
HasLine(l) == \E i \in 1..Len(lines) : Line(lines[i]) = l

-----------------------------------------------------------------------------
(* Claims *)

ParseRunCategoriesAgree(r, Count(_)) ==
    /\ r.read_calls = Count("read")
    /\ r.glob_calls = Count("glob")
    /\ r.grep_calls = Count("grep")
    /\ r.bash_calls = Count("shell")
    /\ r.mcp_calls = Count("mcp")
    /\ r.tool_calls = r.read_calls + r.glob_calls + r.grep_calls + r.bash_calls
                      + r.mcp_calls + Count("other")

\* The same for parse_stream_json, which keeps no manifest-probe counter: those
\* blocks are among the ones that match none of its four names.
ParseStreamCategoriesAgree(r, Count(_)) ==
    /\ r.read_calls = Count("read")
    /\ r.glob_calls = Count("glob")
    /\ r.grep_calls = Count("grep")
    /\ r.bash_calls = Count("shell")
    /\ r.tool_call_count = r.read_calls + r.glob_calls + r.grep_calls + r.bash_calls
                           + Count("mcp") + Count("other")

NewLine == Line(lines'[Len(lines')])

\* parse_run's next metrics do not depend on manifest_accessed being set already,
\* the flag apart, which stays set
FlagIndependent(m, mNext, Step(_, _)) ==
    mNext = [Step([m EXCEPT !.manifest_accessed = FALSE], NewLine).m
               EXCEPT !.manifest_accessed = TRUE]

\* C3: during one parse by parse_run, manifest_accessed starts false; once true, no
\* record of any kind sets it back; and with the flag already true a further
\* signal changes nothing that the flag decides: a user record leaves the metrics
\* as they are, and any record changes the other fields as it would with the flag unset.
C3_ManifestMonotonicIdempotent ==
    /\ ~m15.manifest_accessed
    /\ ~m15i.manifest_accessed
    /\ [][/\ m15.manifest_accessed => m15'.manifest_accessed
          /\ m15i.manifest_accessed => m15i'.manifest_accessed
          /\ (m15.manifest_accessed /\ pc["exp15"] = "run" /\ Len(lines') = Len(lines) + 1) =>
               /\ FlagIndependent(m15, m15', parse_run_15)
               /\ IsRecord(NewLine, "user") => m15' = m15
          /\ (m15i.manifest_accessed /\ pc["exp15i"] = "run" /\ Len(lines') = Len(lines) + 1) =>
               /\ FlagIndependent(m15i, m15i', parse_run_15i)
               /\ IsRecord(NewLine, "user") => m15i' = m15i
         ]_vars

\* C3 witness: the flag was set by a user record, a result record followed, and a
\* second signal has been read; the flag is still set.
C3_Witness ==
    /\ StreamRead = <<L_userManifest, L_resultFull, L_readManifest>>
    /\ pc["exp15"] = "run" /\ pc["exp15i"] = "run"
    /\ m15.manifest_accessed /\ m15i.manifest_accessed

\* The stream ends with a result record
EndsWithResult(stream) == stream # <<>> /\ IsRecord(stream[Len(stream)], "result")

\* The stream has no result record
NoResult(stream) == \A i \in 1..Len(stream) : ~IsRecord(stream[i], "result")

\* The sum of one usage delta over the assistant records of the stream
AssistantSum(stream, Field(_)) ==
    SumOver(stream, LAMBDA e : IsRecord(e, "assistant"),
            LAMBDA e : Get(Field(e.message.usage), 0))

\* The value the merge rule gives: the result record's, when present and not zero,
\* and the sum over the assistant records otherwise
Preferred(resultValue, sum) == IF Truthy(resultValue) THEN resultValue ELSE sum

\* The merge rule on the six fields of a returned dict whose cache-create field is cc
MergeRuleHolds(stream, r, cc) ==
    LET last == stream[Len(stream)] IN
    /\ r.input_tokens =
         Preferred(last.usage.input_tokens, AssistantSum(stream, LAMBDA u : u.input_tokens))
    /\ r.output_tokens =
         Preferred(last.usage.output_tokens, AssistantSum(stream, LAMBDA u : u.output_tokens))
    /\ r.cache_read_tokens =
         Preferred(last.usage.cache_read_input_tokens,
                   AssistantSum(stream, LAMBDA u : u.cache_read_input_tokens))
    /\ cc =
         Preferred(last.usage.cache_creation_input_tokens,
                   AssistantSum(stream, LAMBDA u : u.cache_creation_input_tokens))
    /\ r.cost_usd = Preferred(last.total_cost_usd, 0)
    /\ r.duration_ms = Preferred(last.duration_ms, 0)

\* C4: for a stream that ends with a result record, each token count, the cost and
\* the duration returned equal the result record's value when it is present and
\* not zero, and the sum over the assistant records otherwise.
C4_ResultPreferredElseSum ==
    EndsWithResult(StreamRead) =>
      /\ Len(ret15) = 1 => MergeRuleHolds(StreamRead, ret15[1], ret15[1].cache_creation_tokens)
      /\ Len(ret15i) = 1 => MergeRuleHolds(StreamRead, ret15i[1], ret15i[1].cache_creation_tokens)
      /\ Len(ret17) = 1 => MergeRuleHolds(StreamRead, ret17[1], ret17[1].cache_create_tokens)

\* The token totals of a returned dict are the sums over the assistant records
TokensAreSums(stream, r, cc) ==
    /\ r.input_tokens = AssistantSum(stream, LAMBDA u : u.input_tokens)
    /\ r.output_tokens = AssistantSum(stream, LAMBDA u : u.output_tokens)
    /\ r.cache_read_tokens = AssistantSum(stream, LAMBDA u : u.cache_read_input_tokens)
    /\ cc = AssistantSum(stream, LAMBDA u : u.cache_creation_input_tokens)

\* C5: for a stream with no result record, each token total returned equals the
\* sum of its usage deltas over all assistant records, and the cost is 0.0.
C5_NoResultTotalsAreSums ==
    NoResult(StreamRead) =>
      /\ Len(ret15) = 1 =>
           /\ TokensAreSums(StreamRead, ret15[1], ret15[1].cache_creation_tokens)
           /\ ret15[1].cost_usd = 0
      /\ Len(ret15i) = 1 =>
           /\ TokensAreSums(StreamRead, ret15i[1], ret15i[1].cache_creation_tokens)
           /\ ret15i[1].cost_usd = 0
      /\ Len(ret16) = 1 => TokensAreSums(StreamRead, ret16[1], ret16[1].cache_create_tokens)
      /\ Len(ret17) = 1 =>
           /\ TokensAreSums(StreamRead, ret17[1], ret17[1].cache_create_tokens)
           /\ ret17[1].cost_usd = 0

\* One loop iteration of parser p on its locals m
StepOf(p, m, l) ==
    CASE p = "exp15" -> parse_run_15(m, l)
      [] p = "exp15i" -> parse_run_15i(m, l)
      [] p = "exp16" -> parse_jsonl(m, l)
      [] p = "exp17" -> parse_stream_json(m, l)
      [] p = "exp18" -> parse_stream_json_18(m, l)

\* The locals of parser p before its loop
InitOf(p) ==
    CASE p = "exp15" -> ParseRunInit
      [] p = "exp15i" -> ParseRunInit
      [] p = "exp16" -> ParseJsonlInit
      [] p = "exp17" -> ParseStreamInit
      [] p = "exp18" -> Parse18Init

\* What parser p returns from the locals m
ReturnOf(p, m) ==
    CASE p = "exp15" -> ParseRunReturn(m)
      [] p = "exp15i" -> ParseRunReturn(m)
      [] p = "exp16" -> ParseJsonlReturn(m)
      [] p = "exp17" -> ParseStreamReturn(m)
      [] p = "exp18" -> Parse18Return(m)

RECURSIVE ParseFrom(_, _, _)
\* Parser p run from the state st = [m, ok] over a whole stream; an exception ends it
ParseFrom(p, st, stream) ==
    IF stream = <<>> \/ ~st.ok THEN st
    ELSE ParseFrom(p, StepOf(p, st.m, Head(stream)), Tail(stream))

\* Parser p run alone over a whole stream
ParseAlone(p, stream) == ParseFrom(p, [m |-> InitOf(p), ok |-> TRUE], stream)

\* The stream without its blank and undecodable lines
Decodable(stream) == SelectSeq(stream, LAMBDA l : l.json \notin {"blank", "garbage"})

\* The locals of parser p in the current state, and what it has returned
LocalsOf(p) ==
    CASE p = "exp15" -> m15 [] p = "exp15i" -> m15i [] p = "exp16" -> m16 [] p = "exp17" -> m17
      [] p = "exp18" -> m18

ReturnedBy(p) ==
    CASE p = "exp15" -> ret15 [] p = "exp15i" -> ret15i [] p = "exp16" -> ret16
      [] p = "exp17" -> ret17 [] p = "exp18" -> ret18

\* C6: undecodable and blank lines are transparent: whatever stream a parser has
\* read, its locals, its having raised or not, and the metrics it returns are those
\* of parsing the same stream with the undecodable and blank lines taken out.
C6_UndecodableTransparent ==
    \A p \in Parsers :
      LET clean == ParseAlone(p, Decodable(StreamRead)) IN
      /\ LocalsOf(p) = clean.m
      /\ (pc[p] = "error") = ~clean.ok
      /\ pc[p] = "done" => ReturnedBy(p) = <<ReturnOf(p, clean.m)>>

\* C6 witness: a stream with an undecodable line before and a blank line after a
\* record has been parsed to the end and the record was counted.
C6_Witness ==
    /\ StreamRead = <<L_garbage, L_read, L_blank>>
    /\ \A p \in Parsers : pc[p] = "done"
    /\ ret15[1].tool_calls = 1 /\ ret15i[1].tool_calls = 1
    /\ ret16[1].tool_call_count = 1 /\ ret17[1].tool_call_count = 1

\* C7: the parser is total: whatever the lines, it never ends in an exception, and
\* at the end of the stream it has returned exactly one metrics record.
C7_ParserTotal ==
    \A p \in {"exp15", "exp15i", "exp17"} :
      /\ pc[p] # "error"
      /\ pc[p] = "done" => Len(ReturnedBy(p)) = 1

\* The serialized input of a tool_use block contains the marker
InputHasMarker(b) ==
    \/ Contains(GetStr(b.input.file_path, <<>>), MANIFEST_MARKER)
    \/ Contains(GetStr(b.input.command, <<>>), MANIFEST_MARKER)
    \/ Contains(GetStr(b.input.path, <<>>), MANIFEST_MARKER)

\* A manifest-probe tool name that also contains 'index' or 'manifest'
IsManifestProbeName(n) ==
    /\ StartsWith(n, PFX_MCP) \/ StartsWith(n, PFX_FMM)
    /\ Contains(n, K_index) \/ Contains(n, K_manifest)

\* Some block of some record of the given type satisfies P
SomeBlock(stream, type, P(_)) ==
    \E i \in 1..Len(stream) :
      /\ IsRecord(stream[i], type)
      /\ \E j \in 1..Len(stream[i].message.content) :
           /\ stream[i].message.content[j].json = "obj"
           /\ P(stream[i].message.content[j])

RECURSIVE FinalAnswer(_)
\* The final answer text of a stream: the text of its last result record that has
\* one, or of the last text block after it
FinalAnswer(stream) ==
    IF stream = <<>> THEN <<>>
    ELSE LET e == stream[Len(stream)]
             texts == SelectSeq(e.message.content,
                                LAMBDA b : b.json = "obj" /\ b.type = "text")
         IN  IF IsRecord(e, "result") /\ GetStr(e.result, <<>>) \notin {<<>>, NullStr} THEN e.result
             ELSE IF IsRecord(e, "assistant") /\ texts # <<>>
                  THEN GetStr(texts[Len(texts)].text, <<>>)
                  ELSE FinalAnswer(SubSeq(stream, 1, Len(stream) - 1))

\* The stream carries one of the four manifest signals
HasManifestSignal(stream) ==
    \/ SomeBlock(stream, "assistant", LAMBDA b : b.type = "tool_use" /\ InputHasMarker(b))
    \/ Contains(FinalAnswer(stream), MANIFEST_MARKER)
    \/ SomeBlock(stream, "assistant",
                 LAMBDA b : b.type = "tool_use" /\ IsManifestProbeName(NameOf(b)))
    \/ SomeBlock(stream, "user",
                 LAMBDA b : b.type = "tool_result"
                            /\ Contains(GetStr(b.content, <<>>), MANIFEST_MARKER))

\* C8: manifest_accessed is true at the end of the parse whenever the stream has
\* one of the four signals: a tool_use input with the marker, a final answer with
\* the marker, a manifest-probe tool name with 'index' or 'manifest', a user
\* tool_result with the marker.
C8_ManifestSignalsDetected ==
    /\ (Len(ret15) = 1 /\ HasManifestSignal(StreamRead)) => ret15[1].manifest_accessed
    /\ (Len(ret15i) = 1 /\ HasManifestSignal(StreamRead)) => ret15i[1].manifest_accessed

\* C9: score_exact_path is reflexive and normalization-invariant: an answer equal
\* to the truth scores 1.0, surrounding whitespace and backquotes included, and a
\* './' put before the answer or before the truth does not change the score.
C9_ReflexiveNormalizationInvariant ==
    /\ score16 # <<>> =>
         /\ answer = truth => score16[1] = 1
         /\ score_exact_path_16(DOT_SLASH \o answer, truth) = score16[1]
         /\ score_exact_path_16(answer, DOT_SLASH \o truth) = score16[1]
    /\ score17 # <<>> =>
         /\ answer = truth => score17[1] = 1
         /\ score_exact_path_17(DOT_SLASH \o answer, truth) = score17[1]
         /\ score_exact_path_17(answer, DOT_SLASH \o truth) = score17[1]

\* The normalization of the claim: surrounding whitespace and backquotes go, then
\* one leading './'; a './' inside the string stays
LeadingMarkerNorm(str) ==
    LET bare == StripSet(str, {" ", "\t", "\n", BACKTICK})
    IN  IF StartsWith(bare, DOT_SLASH) THEN SubSeq(bare, 3, Len(bare)) ELSE bare

\* C10: score_exact_path returns 1.0 exactly when the normalized truth is a
\* substring of the normalized answer and 0.0 otherwise, the normalization taking
\* away only a leading './' and surrounding whitespace and backquotes, the same
\* for answer and truth.
C10_SubstringOfNormalized ==
    LET expected == IF Contains(LeadingMarkerNorm(answer), LeadingMarkerNorm(truth))
                    THEN 1 ELSE 0
    IN  /\ score16 # <<>> => score16[1] = expected
        /\ score17 # <<>> => score17[1] = expected


-----------------------------------------------------------------------------
(* Claims about score_set_match, score_exact_number and score_result *)

\* The results score_result has returned so far
Results == {result16[i] : i \in 1..Len(result16)} \cup {result17[i] : i \in 1..Len(result17)}

\* Both versions of score_result have scored the task
BothScored == result16 # <<>> /\ result17 # <<>>

\* The ground truth is an empty list or None
EmptyTruth ==
    \/ task.ground_truth.kind = "none"
    \/ task.ground_truth.kind = "list" /\ task.ground_truth.list = <<>>

\* C11: score_set_match with an empty or None ground-truth list returns 1.0 for
\* every answer, the empty string included; no division by zero is raised.
C11_EmptyTruthScoresOne ==
    (task.scoring = S_set_match /\ EmptyTruth) =>
        /\ score_set_match(answer, task.ground_truth) = Score(1, 1)
        /\ \A r \in Results : r = Score(1, 1)

\* C11 witness: a set_match task with an empty list and the empty answer, scored
\* by both versions.
C11_Witness ==
    /\ task.scoring = S_set_match
    /\ task.ground_truth = GTList(<<>>)
    /\ answer = <<>>
    /\ BothScored
    /\ Results = {Score(1, 1)}

\* The stem as the claim words it: the last path segment with its trailing .js or
\* .ts extension stripped, nothing else removed
TrailingExtStem(item) ==
    LET seg == LastSegment(item)
        n == Len(seg)
    IN  IF n >= 3 /\ SubSeq(seg, n - 2, n) \in {EXT_JS, EXT_TS}
        THEN SubSeq(seg, 1, n - 3)
        ELSE seg

RECURSIVE CountStemsIn(_, _)
\* Number of items whose stem occurs, ignoring case, in the answer
CountStemsIn(a, list) ==
    IF list = <<>> THEN 0
    ELSE (IF Contains(Lower(a), Lower(TrailingExtStem(Head(list)))) THEN 1 ELSE 0)
         + CountStemsIn(a, Tail(list))

\* C12: for a non-empty expected list score_set_match returns k/n, n the number of
\* expected items and k the number of items whose stem (last path segment, trailing
\* .js or .ts stripped, nothing else removed) occurs in the answer ignoring case;
\* the result lies in [0, 1].
C12_FractionOfStemsFound ==
    (task.scoring = S_set_match /\ task.ground_truth.kind = "list"
        /\ task.ground_truth.list # <<>>) =>
        \A r \in Results :
            /\ r = Score(CountStemsIn(answer, task.ground_truth.list),
                         Len(task.ground_truth.list))
            /\ 0 <= r.num /\ r.num <= r.den

\* The answer holds a maximal run of digits, delimited by word boundaries, equal to str_
HasStandaloneNumber(a, str_) ==
    \E i \in 1..Len(a) : \E j \in i..Len(a) :
        /\ SubSeq(a, i, j) = str_
        /\ \A k \in i..j : IsDigit(a[k])
        /\ (i = 1 \/ ~IsWord(a[i - 1]))
        /\ (j = Len(a) \/ ~IsWord(a[j + 1]))

\* C13: for an exact_number task with numeric ground truth g, score_result returns
\* 1.0 exactly when the answer holds a standalone run of digits equal to the
\* decimal string of g, and 0.0 otherwise (420 does not match 42).
C13_ExactNumberStandalone ==
    (task.scoring = S_exact_number /\ task.ground_truth.kind = "num") =>
        \A r \in Results :
            r = IF HasStandaloneNumber(answer, StrOfNat(task.ground_truth.num))
                THEN Score(1, 1) ELSE Score(0, 1)

\* C13 witness: the answer "420" scored against 42 by both versions, giving 0.0.
C13_Witness ==
    /\ task.scoring = S_exact_number
    /\ task.ground_truth = GTNum(42)
    /\ answer = <<"4", "2", "0">>
    /\ BothScored
    /\ Results = {Score(0, 1)}

\* C14: for a task whose scoring tag is none of exact_path, set_match and
\* exact_number, score_result returns 0.0, as a value, for every answer and
\* every ground-truth value.
C14_UnknownStrategyScoresZero ==
    (task.scoring \notin {S_exact_path, S_set_match, S_exact_number, S_absent}
        /\ task.ground_truth.kind # "absent") =>
        \A r \in Results : r = Score(0, 1)

\* C14 witness: a task tagged "fuzzy" with a list as ground truth, scored by both
\* versions.
C14_Witness ==
    /\ task.scoring = S_fuzzy
    /\ task.ground_truth = GTList(<<I_js>>)
    /\ answer = A_Be
    /\ BothScored
    /\ Results = {Score(0, 1)}



-----------------------------------------------------------------------------
(* Claims about compute_averages and stddev *)

\* The runs of a condition in another order
Reordered(all_metrics, perm) == [i \in 1..Len(all_metrics) |-> all_metrics[perm[i]]]

\* C15: compute_averages depends only on the multiset of runs of a condition:
\* however the same runs are ordered and split across tasks, the means,
\* manifest_pct and n are identical.
C15_AveragesIgnoreDistribution ==
    averages # <<>> =>
        \A cond \in DOMAIN averages[1] :
            \A perm \in Permutations(1..Len(Flatten(data[cond]))) :
                AveragesOf(Reordered(Flatten(data[cond]), perm)) = averages[1][cond]

\* Every value of the list is the same
AllEqual(values) == \A i \in 1..Len(values) : NumEq(values[i], values[1])

\* C16: stddev returns 0 for a list of fewer than two values and for a list of
\* equal values; its result for [1,2,3] is 1.
C16_StddevZeroOnEqualValues ==
    stats # <<>> =>
        \A cond \in DOMAIN stats[1] : \A k \in METRIC_KEYS :
            LET values == Column(Flatten(data[cond]), k)
            IN  /\ (Len(values) < 2 \/ AllEqual(values)) => NumEq(stats[1][cond][k].stddev, PyInt(0))
                /\ values = <<PyInt(1), PyInt(2), PyInt(3)>> =>
                        NumEq(stats[1][cond][k].stddev, PyInt(1))



-----------------------------------------------------------------------------
(* Claims about the percentage deltas *)

\* The deltas computed so far
Computed == {k \in DOMAIN deltas : deltas[k] # <<>>}

\* C17: every percentage-delta computation produces a value and never a division
\* by zero, for every non-negative baseline including 0; baseline 0, treatment 5
\* and epsilon 1 give +500.
C17_DeltaNeverDividesByZero ==
    /\ \A k \in Computed : ~IsRaised(deltas[k][1].value)
    /\ (deltas.tool_delta # <<>>
            /\ NumEq(AveragesOf(a_runs).tool_calls, PyInt(0))
            /\ NumEq(AveragesOf(b_runs).tool_calls, PyInt(5)))
        => NumEq(deltas.tool_delta[1].value, PyInt(500))



-----------------------------------------------------------------------------
(* Claims about load_dataset *)

\* The record of a stream parsed alone, the stream given by the names of its lines
ParsedAlone(names) ==
    ReturnOf("exp15i", ParseAlone("exp15i", [i \in 1..Len(names) |-> Line(names[i])]).m)

\* The records stored for a task of a condition
Stored(cond, task_name) ==
    IF cond \notin DOMAIN data THEN <<>>
    ELSE LET hits == {i \in 1..Len(data[cond]) : data[cond][i].task = task_name}
         IN  IF hits = {} THEN <<>> ELSE data[cond][CHOOSE i \in hits : TRUE].runs

\* The files of a task of a condition whose records have been stored
DoneFiles(cond, task_name) ==
    {f \in FileIds : /\ fstate[f] = "done"
                     /\ FileTable[f].cond = cond
                     /\ Parts(f)[1] = task_name}

LoadTasks == {Parts(f)[1] : f \in FileIds}

\* C18: parse invocations are isolated. Whether the streams are parsed one after
\* another or by overlapping invocations that store a record once its parse has
\* completed, the records stored for a task are, one for one, the records of
\* its parsed streams each parsed alone, so the collection ends with exactly one
\* record per parsed stream.
C18_ParsesAreIsolated ==
    \A cond \in {FileTable[f].cond : f \in FileIds} : \A task_name \in LoadTasks :
        LET runs == Stored(cond, task_name)
            done == DoneFiles(cond, task_name)
        IN  /\ Len(runs) = Cardinality(done)
            /\ \A i \in 1..Len(runs) :
                 Cardinality({j \in 1..Len(runs) : runs[j] = runs[i]})
                    = Cardinality({f \in done : ParsedAlone(files[f]) = runs[i]})

\* C18 witness: the load has completed, a slot has served the two streams of one
\* task, and the two streams yield different, non-empty records
C18_Witness ==
    /\ \A f \in FileIds : fstate[f] \in {"done", "skipped"}
    /\ Len(Stored("A", SubSeq(STEM_t_run1, 1, 1))) = 2
    /\ Len(Stored("B", SubSeq(STEM_t_run1, 1, 1))) = 1
    /\ Stored("A", SubSeq(STEM_t_run1, 1, 1))[1] # Stored("A", SubSeq(STEM_t_run1, 1, 1))[2]
    /\ \A i \in 1..2 : Stored("A", SubSeq(STEM_t_run1, 1, 1))[i] # ParseRunReturn(ParseRunInit)



-----------------------------------------------------------------------------
(* Claims about the files accessed *)

\* The non-empty target paths of the read-classified tool_use blocks of a record
ReadTargetsOf(e) ==
    {b.input.file_path : b \in
        {ToolUseBlocksOf(e)[i] : i \in
            {j \in 1..Len(ToolUseBlocksOf(e)) :
                /\ Category(NameOf(ToolUseBlocksOf(e)[j])) = "read"
                /\ ToolUseBlocksOf(e)[j].input.file_path \notin {MissingStr, <<>>}}}}

\* The same over the assistant records of a stream
ReadTargets(stream) ==
    UNION {ReadTargetsOf(stream[i]) : i \in {j \in 1..Len(stream) : IsRecord(stream[j], "assistant")}}

\* C19: the files-accessed value of the returned metrics is an integer, the number
\* of distinct non-empty target paths of the read-classified tool_use blocks in
\* the stream; blocks of other categories add nothing, and the set is not returned.
C19_FilesAccessedIsReadTargetCount ==
    /\ Len(ret15) = 1 => ret15[1].files_accessed = Cardinality(ReadTargets(StreamRead))
    /\ Len(ret15i) = 1 => ret15i[1].files_accessed = Cardinality(ReadTargets(StreamRead))
    /\ Len(ret17) = 1 => ret17[1].files_read = Cardinality(ReadTargets(StreamRead))



-----------------------------------------------------------------------------
(* Claims about unrecognised tool names *)

N_ReadX == <<"R", "e", "a", "d", "x">>
N_read == <<"r", "e", "a", "d">>

\* tool_use blocks whose name is outside the recognised set: other names, the
\* empty name and no name, with inputs that the recognised names would look at
UnrecognisedBlocks ==
    {ToolUse(n, i) : n \in {N_Edit, N_ReadX, N_read, K_fmm, <<>>, MissingStr},
                     i \in {NoInput, Input(MANIFEST_MARKER, C_fmm, P_dir)}}

\* C20: in parse_run a tool_use block whose name is outside the recognised set
\* (the empty and the missing name included) increases tool_calls by exactly 1
\* and leaves every other field of the metrics unchanged, in every state the
\* parse can be in and on the line of the stream that holds two such blocks.
C20_UnrecognisedToolOnlyCountsTotal ==
    /\ [](\A b \in UnrecognisedBlocks :
            /\ Category(NameOf(b)) = "other"
            /\ parse_run_15(m15, Assistant(<<b>>, NoUsage))
                    = [m |-> [m15 EXCEPT !.tool_calls = @ + 1], ok |-> TRUE]
            /\ parse_run_15i(m15i, Assistant(<<b>>, NoUsage))
                    = [m |-> [m15i EXCEPT !.tool_calls = @ + 1], ok |-> TRUE])
    /\ [][(lines' = Append(lines, "other"))
            => /\ pc["exp15"] = "run" => m15' = [m15 EXCEPT !.tool_calls = @ + 2]
               /\ pc["exp15i"] = "run" => m15i' = [m15i EXCEPT !.tool_calls = @ + 2]]_vars

\* C20 witness: after a Read, the line with the two unrecognised blocks has been
\* parsed: the total is 3 and the Read is the only call in a category
C20_Witness ==
    /\ lines = <<"read", "other">>
    /\ pc["exp15"] = "run" /\ pc["exp15i"] = "run"
    /\ m15 = [ParseRunInit EXCEPT !.tool_calls = 3, !.read_calls = 1, !.files_accessed = {P_src}]
    /\ m15i = m15



-----------------------------------------------------------------------------
(* Claims about the final answer text *)

\* The texts of the text blocks of the assistant records of a stream, in order
RECURSIVE TextsOf(_)
TextsOf(stream) ==
    IF stream = <<>> THEN <<>>
    ELSE LET e == Head(stream)
             blocks == IF IsRecord(e, "assistant")
                       THEN SelectSeq(e.message.content,
                                      LAMBDA b : b.json = "obj" /\ b.type = "text")
                       ELSE <<>>
         IN  [i \in 1..Len(blocks) |-> GetStr(blocks[i].text, <<>>)] \o TextsOf(Tail(stream))

\* The text of the last text block, "" when there is none
LastText(stream) ==
    IF TextsOf(stream) = <<>> THEN <<>> ELSE TextsOf(stream)[Len(TextsOf(stream))]

\* The stream has a result record
HasResult(stream) == \E i \in 1..Len(stream) : IsRecord(stream[i], "result")

\* C21: for a stream without a result record, the final answer text a parser
\* returns is the text of the last text block of the assistant records, in stream
\* order, and the empty string when the stream has no text block.
C21_FinalTextIsLastTextBlock ==
    ~HasResult(StreamRead) =>
        /\ Len(ret16) = 1 => ret16[1].final_text = LastText(StreamRead)
        /\ Len(ret17) = 1 => ret17[1].final_text = LastText(StreamRead)
        /\ Len(ret18) = 1 => ret18[1].response = LastText(StreamRead)

\* C21 witness: two assistant records with different texts and no result record;
\* the three parsers return the later text
C21_Witness ==
    /\ lines = <<"textMarker", "read", "other">>
    /\ Len(ret16) = 1 /\ Len(ret17) = 1 /\ Len(ret18) = 1
    /\ ret16[1].final_text = T_answer
    /\ ret17[1].final_text = T_answer
    /\ ret18[1].response = T_answer



-----------------------------------------------------------------------------
(* Claims about the harness script *)

\* The stream the harness script has read
HarnessStream == [i \in 1..Len(hlines) |-> HarnessLine(hlines[i])]

\* The commands of the Bash tool_use blocks of the assistant records of a stream
BashCommands(stream) ==
    UNION {{GetStr(ToolUseBlocksOf(stream[i])[j].input.command, <<>>) :
                j \in {k \in 1..Len(ToolUseBlocksOf(stream[i])) :
                        NameOf(ToolUseBlocksOf(stream[i])[k]) = N_Bash}} :
           i \in {k \in 1..Len(stream) : IsRecord(stream[k], "assistant")}}

\* The command has one of the read-like verbs
HasReadVerb(cmd) ==
    \/ Contains(cmd, <<"c", "a", "t", " ">>) \/ Contains(cmd, <<"h", "e", "a", "d", " ">>)
    \/ Contains(cmd, <<"t", "a", "i", "l", " ">>) \/ Contains(cmd, <<"l", "e", "s", "s", " ">>)

\* The marker prefix followed by the first 100 characters of the command
First100(cmd) ==
    <<"(", "b", "a", "s", "h", ")", " ">>
        \o [i \in 1..(IF Len(cmd) < 100 THEN Len(cmd) ELSE 100) |-> cmd[i]]

\* C22: in the harness parser a Bash block adds a pseudo-path to the files read
\* exactly when its command contains 'cat ', 'head ', 'tail ' or 'less '; the
\* pseudo-path is the marker prefix and the first 100 characters of the command,
\* so files_read_count counts once the read-like commands that agree on their
\* first 100 characters, and other Bash commands add nothing.
C22_BashPseudoPaths ==
    Len(hret) = 1 =>
        LET pseudo == {First100(cmd) : cmd \in {c \in BashCommands(HarnessStream) : HasReadVerb(c)}}
        IN  /\ hret[1].files_read = ReadTargets(HarnessStream) \cup pseudo
            /\ hret[1].files_read_count = Cardinality(ReadTargets(HarnessStream) \cup pseudo)

\* C22 witness: two long read-like commands that differ after their first 100
\* characters and the line with `cat` and a command without a verb: two files
C22_Witness ==
    /\ hlines = <<"long1", "bash", "long2">>
    /\ Len(hret) = 1
    /\ hret[1].files_read_count = 2
    /\ hret[1].tool_calls_count = 4

\* C27: in the harness parser used_manifest implies discovered_fmm, and both
\* flags are false for a stream with no tool calls and no assistant text.
C27_UsedManifestImpliesDiscovered ==
    Len(hret) = 1 =>
        /\ hret[1].used_manifest => hret[1].discovered_fmm
        /\ (hret[1].tool_calls_count = 0 /\ TextsOf(HarnessStream) = <<>>)
                => (~hret[1].used_manifest /\ ~hret[1].discovered_fmm)

\* C27 witness: a Read of the manifest sets both flags
C27_Witness ==
    /\ Len(hret) = 1
    /\ hlines = <<"split", "readManifest">>
    /\ hret[1].used_manifest
    /\ hret[1].discovered_fmm



-----------------------------------------------------------------------------
(* Claims about false manifest signals *)

\* The stream has one of the three signals that may set manifest_accessed: a Read
\* of a path with the marker, a manifest-probe tool name with 'index' or
\* 'manifest', a user tool_result with the marker
HasAllowedManifestSignal(stream) ==
    \/ SomeBlock(stream, "assistant",
                 LAMBDA b : /\ b.type = "tool_use"
                            /\ NameOf(b) = N_Read
                            /\ Contains(GetStr(b.input.file_path, <<>>), MANIFEST_MARKER))
    \/ SomeBlock(stream, "assistant",
                 LAMBDA b : b.type = "tool_use" /\ IsManifestProbeName(NameOf(b)))
    \/ SomeBlock(stream, "user",
                 LAMBDA b : b.type = "tool_result"
                            /\ Contains(GetStr(b.content, <<>>), MANIFEST_MARKER))

\* C23: no false manifest signal: at the end of parse_run manifest_accessed is
\* true only if the stream has a Read of a path containing '.fmm/index.json', a
\* manifest-probe tool name containing 'index' or 'manifest', or a user
\* tool_result containing the marker; a Read of a path that merely contains
\* 'fmm' and 'index' leaves it false.
C23_NoFalseManifestSignal ==
    /\ (Len(ret15) = 1 /\ ret15[1].manifest_accessed) => HasAllowedManifestSignal(StreamRead)
    /\ (Len(ret15i) = 1 /\ ret15i[1].manifest_accessed) => HasAllowedManifestSignal(StreamRead)



-----------------------------------------------------------------------------
(* Claims about the position of the result record *)

\* The positions of the result records of a stream
ResultPositions(stream) == {i \in 1..Len(stream) : IsRecord(stream[i], "result")}

\* Every usage value of the record is present and not 0
NonZeroUsage(e) ==
    /\ Truthy(e.usage.input_tokens) /\ Truthy(e.usage.output_tokens)
    /\ Truthy(e.usage.cache_read_input_tokens) /\ Truthy(e.usage.cache_creation_input_tokens)

\* C24: in parse_stream_json (exp17), for a stream with one result record whose
\* usage values are non-zero, the returned input, output, cache-read and
\* cache-create token counts are that record's values wherever the record
\* stands, also when assistant records with usage follow it.
C24_ResultUsageWinsAnywhere ==
    (/\ Len(ret17) = 1
     /\ Cardinality(ResultPositions(StreamRead)) = 1
     /\ \A i \in ResultPositions(StreamRead) : NonZeroUsage(StreamRead[i]))
    => \A i \in ResultPositions(StreamRead) :
          /\ ret17[1].input_tokens = StreamRead[i].usage.input_tokens
          /\ ret17[1].output_tokens = StreamRead[i].usage.output_tokens
          /\ ret17[1].cache_read_tokens = StreamRead[i].usage.cache_read_input_tokens
          /\ ret17[1].cache_create_tokens = StreamRead[i].usage.cache_creation_input_tokens



\* A value that is a Python str: a sequence of characters that is neither the
\* null marker nor the missing marker
IsStr(v) == v \in Seq(STRING) /\ v \notin {NullStr, MissingStr}

\* C25: the final answer text returned by parse_jsonl (exp16) and by
\* parse_stream_json (exp17) is a string (possibly empty) for every stream, a
\* null, missing or empty result field included, so score_result applies to it.
C25_FinalTextIsString ==
    /\ Len(ret16) = 1 => IsStr(ret16[1].final_text)
    /\ Len(ret17) = 1 => IsStr(ret17[1].final_text)

\* The exp17 half of C25 alone
C25_FinalTextIsString17 == Len(ret17) = 1 => IsStr(ret17[1].final_text)



-----------------------------------------------------------------------------
(* Claims about the call counters of parse_run *)

\* The counters parse_run increments for tool_use blocks
CallCounters ==
    {"tool_calls", "read_calls", "glob_calls", "grep_calls", "bash_calls",
     "mcp_calls", "fmm_cli_calls"}

\* The orderings of the counters of one metrics dict
CountersOrdered(m) ==
    /\ \A c \in CallCounters : m[c] >= 0
    /\ 0 <= m.fmm_cli_calls /\ m.fmm_cli_calls <= m.bash_calls
    /\ m.bash_calls <= m.tool_calls
    /\ m.read_calls + m.glob_calls + m.grep_calls + m.bash_calls + m.mcp_calls
           <= m.tool_calls
    /\ Cardinality(m.files_accessed) <= m.read_calls

\* C26: after every record parse_run has processed, its counters are not
\* negative and have not decreased, fmm_cli_calls <= bash_calls <= tool_calls,
\* the five category counters sum to at most tool_calls, and the set of files
\* accessed has at most read_calls members.
C26_CountersOrderedAndMonotone ==
    /\ [](CountersOrdered(m15) /\ CountersOrdered(m15i))
    /\ [][\A c \in CallCounters : m15'[c] >= m15[c] /\ m15i'[c] >= m15i[c]]_vars

\* C26 witness: two Reads of one file and a line with two Bash calls, one of
\* them an fmm command, have been parsed: every ordering is strict or tight
C26_Witness ==
    /\ lines = <<"read", "read", "bash">>
    /\ pc["exp15"] = "run" /\ pc["exp15i"] = "run"
    /\ m15.tool_calls = 4 /\ m15.read_calls = 2 /\ m15.bash_calls = 2
    /\ m15.fmm_cli_calls = 1 /\ Cardinality(m15.files_accessed) = 1
    /\ m15i = m15



-----------------------------------------------------------------------------
(* Claims about the counters of the exp18 parser *)

\* The sum of the counts of a tools_by_name dict
RECURSIVE SumCounts(_)
SumCounts(by_name) ==
    IF DOMAIN by_name = {} THEN 0
    ELSE LET n == CHOOSE x \in DOMAIN by_name : TRUE
         IN  by_name[n] + SumCounts([x \in DOMAIN by_name \ {n} |-> by_name[x]])

\* The content blocks of the assistant lines of the model
AllToolUseBlocks ==
    UNION {{LineTable[l].message.content[i] : i \in DOMAIN LineTable[l].message.content}
             : l \in {x \in Lines : LineTable[x].json = "obj" /\ LineTable[x].type = "assistant"}}

\* C30: after every record the exp18 parser has processed, sidecar_reads +
\* source_reads is the length of files_read, which is at most read_calls, which
\* is at most tool_calls; mcp_calls is at most tool_calls; the counts of
\* tools_by_name sum to tool_calls; and no tool_use block is counted both as a
\* read call and as an mcp call.
C30_Exp18CountersConsistent ==
    /\ m18.sidecar_reads + m18.source_reads = Len(m18.files_read)
    /\ Len(m18.files_read) <= m18.read_calls
    /\ m18.read_calls <= m18.tool_calls
    /\ m18.mcp_calls <= m18.tool_calls
    /\ SumCounts(m18.tools_by_name) = m18.tool_calls
    /\ \A b \in AllToolUseBlocks :
          (b.json = "obj" /\ b.type = "tool_use") =>
              LET after == Parse18ToolUse(m18, b)
              IN  ~(after.read_calls > m18.read_calls /\ after.mcp_calls > m18.mcp_calls)
    /\ m18.read_calls + m18.mcp_calls <= m18.tool_calls

\* C30 witness: a Read, the three View blocks (a sidecar by its path key, a
\* source file by the fallback to path, one without a path) and the three fmm
\* tool calls have been parsed
C30_Witness ==
    /\ lines = <<"read", "view", "mcp">>
    /\ pc["exp18"] = "run"
    /\ m18.tool_calls = 7 /\ m18.read_calls = 4 /\ m18.mcp_calls = 3
    /\ m18.files_read = <<P_src, P_sidecar, P_src>>
    /\ m18.sidecar_reads = 1 /\ m18.source_reads = 2
    /\ m18.tools_by_name[N_View] = 3



-----------------------------------------------------------------------------
(* Claims about the entries of compute_averages and compute_stats *)

\* The number of runs in the run lists of the tasks of one condition
RECURSIVE RunsIn(_)
RunsIn(entries) ==
    IF entries = <<>> THEN 0 ELSE Len(Head(entries).runs) + RunsIn(Tail(entries))

\* The number of runs the dataset holds for a condition
RunsOfCondition(cond) == IF cond \in DOMAIN data THEN RunsIn(data[cond]) ELSE 0

\* The conditions with at least one run
ConditionsWithRuns ==
    {CONDITIONS[i] : i \in {j \in 1..Len(CONDITIONS) : RunsOfCondition(CONDITIONS[j]) >= 1}}

\* 0 <= x <= 100 for a number that was computed without raising
IsPercentage(x) == ~IsRaised(x) /\ ~Less(x, PyInt(0)) /\ ~Less(PyInt(100), x)

\* C29: compute_averages and compute_stats emit an entry for a condition
\* exactly when the dataset holds at least one run of it; each entry has n >= 1,
\* the number of runs of the condition over all its tasks, and a manifest_pct
\* between 0 and 100; no division by zero occurs for any dataset, the empty one,
\* conditions without tasks and tasks with empty run lists included.
C29_EntryIffRuns ==
    /\ Len(averages) = 1 =>
        /\ DOMAIN averages[1] = ConditionsWithRuns
        /\ \A c \in DOMAIN averages[1] :
              /\ averages[1][c].n = RunsOfCondition(c) /\ averages[1][c].n >= 1
              /\ IsPercentage(averages[1][c].manifest_pct)
              /\ ~IsRaised(averages[1][c].tool_calls) /\ ~IsRaised(averages[1][c].cost_usd)
    /\ Len(stats) = 1 =>
        /\ DOMAIN stats[1] = ConditionsWithRuns
        /\ \A c \in DOMAIN stats[1] :
              /\ \A k \in {"tool_calls", "cost_usd"} :
                    /\ stats[1][c][k].n = RunsOfCondition(c) /\ stats[1][c][k].n >= 1
                    /\ ~IsRaised(stats[1][c][k].mean) /\ ~IsRaised(stats[1][c][k].stddev)
              /\ IsPercentage(stats[1][c].manifest_pct)

\* C29 witness: condition A has a task with an empty run list and a task with
\* two runs, one of them with the manifest, condition B has no tasks; both
\* functions have emitted the entry of A alone
C29_Witness ==
    /\ DOMAIN data = {"A", "B"}
    /\ data["B"] = <<>>
    /\ Len(data["A"]) = 2 /\ data["A"][1].runs = <<>> /\ Len(data["A"][2].runs) = 2
    /\ Len(averages) = 1 /\ Len(stats) = 1
    /\ DOMAIN averages[1] = {"A"} /\ DOMAIN stats[1] = {"A"}
    /\ averages[1]["A"].n = 2
    /\ NumEq(averages[1]["A"].manifest_pct, PyInt(50))



-----------------------------------------------------------------------------
(* exp16 and exp17: the scoring loop of main *)

EXT_jsonl == <<".", "j", "s", "o", "n", "l">>
ID_t == <<"t">>
RUN_1 == <<"1">>

\* The result files a condition directory may hold, in the order sorted() gives
\* their paths ("." sorts before "_"), each with the lines of its stream
ResultFiles ==
    << [name |-> <<"t">> \o EXT_jsonl, content |-> <<"resultFull">>],
       [name |-> <<"t", "_", "r", "u", "n", "1">> \o EXT_jsonl,
        content |-> <<"read", "resultFull">>],
       [name |-> <<"t", "_", "r", "u", "n", "2">> \o EXT_jsonl,
        content |-> <<"read", "read", "resultFull">>],
       [name |-> <<"u", "_", "r", "u", "n", "1">> \o EXT_jsonl,
        content |-> <<"resultFull">>] >>

\* task_map = {t["id"]: t for t in tasks}: one task, t
task_map == [id \in {ID_t} |-> [scoring |-> S_exact_path, ground_truth |-> GTStr(P_src)]]

\* sorted(glob.glob(...)) of one condition: its files by rising index
RECURSIVE Listing(_, _)
Listing(cond, S) ==
    IF S = {} THEN <<>>
    ELSE LET i == CHOOSE k \in S : \A j \in S : k <= j
         IN  <<[cond |-> cond, file |-> i]>> \o Listing(cond, S \ {i})

\* basename = os.path.basename(filepath).replace(".jsonl", "")
Basename(f) == Replace(ResultFiles[f.file].name, EXT_jsonl, <<>>)

\* task_id = parts[0]
TaskIdOf(f) == RSplit1(Basename(f), SEP_run)[1]

\* run_num = parts[1] if len(parts) > 1 else "1"
RunNumOf(f) ==
    IF Len(RSplit1(Basename(f), SEP_run)) > 1 THEN RSplit1(Basename(f), SEP_run)[2] ELSE RUN_1

\* key = f"{task_id}_run{run_num}"
KeyOf(f) == TaskIdOf(f) \o SEP_run \o RunNumOf(f)

\* metrics = parse_jsonl(filepath) / parse_stream_json(filepath)
MetricsOf(p, f) ==
    LET stream == ResultFiles[f.file].content
    IN  ReturnOf(p, ParseAlone(p, [i \in 1..Len(stream) |-> Line(stream[i])]).m)

\* The entry stored for a file: {**metrics, "task_id", "run", "correctness"}
Scored(p, version, f) ==
    [metrics |-> MetricsOf(p, f), task_id |-> TaskIdOf(f), run |-> RunNumOf(f),
     correctness |-> score_result(version, MetricsOf(p, f).final_text, task_map[TaskIdOf(f)])]

\* results[cond][key] = {...}
Store(results, f, entry) ==
    [results EXCEPT ![f.cond] =
        [k \in DOMAIN @ \cup {KeyOf(f)} |-> IF k = KeyOf(f) THEN entry ELSE @[k]]]

MainInit ==
    /\ ParserInit
    /\ ScorerIdle
    /\ TaskIdle
    /\ AggIdle
    /\ DeltaIdle
    /\ LoadIdle
    /\ HarnessIdle
    /\ \E SA \in SUBSET (1..Len(ResultFiles)), SB \in SUBSET (1..Len(ResultFiles)) :
            rfiles = Listing("A", SA) \o Listing("B", SB)
    /\ rseen = <<>>
    /\ results16 = [c \in {"A", "B"} |-> <<>>]
    /\ results17 = [c \in {"A", "B"} |-> <<>>]

\* One iteration of `for filepath in sorted(...)`: a file whose task id is not
\* in task_map is passed over, any other is parsed, scored and stored
ScoreFile ==
    /\ rfiles # <<>>
    /\ LET f == Head(rfiles)
       IN  /\ rfiles' = Tail(rfiles)
           /\ rseen' = Append(rseen, f)
           /\ results16' = IF TaskIdOf(f) \notin DOMAIN task_map THEN results16
                           ELSE Store(results16, f, Scored("exp16", 16, f))
           /\ results17' = IF TaskIdOf(f) \notin DOMAIN task_map THEN results17
                           ELSE Store(results17, f, Scored("exp17", 17, f))
    /\ UNCHANGED parserVars
    /\ UNCHANGED scorerVars
    /\ UNCHANGED taskVars
    /\ UNCHANGED aggVars
    /\ UNCHANGED deltaVars
    /\ UNCHANGED loadVars
    /\ UNCHANGED harnessVars

MainNext == ScoreFile

MainSpec == MainInit /\ [][MainNext]_vars

-----------------------------------------------------------------------------
(* Claims about the scoring loop *)

\* The files of a condition visited so far whose task id is in the task map
KnownSeen(cond) ==
    {i \in 1..Len(rseen) : rseen[i].cond = cond /\ TaskIdOf(rseen[i]) \in DOMAIN task_map}

\* C28: in the exp16 and exp17 scoring loops every result file of a condition
\* whose task id is in the task map contributes one scored run: after the loop
\* results[cond] has as many entries as there are such files, no two of them
\* share a key, and a file with an unknown task id contributes nothing.
C28_OneEntryPerKnownFile ==
    rfiles = <<>> =>
        \A cond \in {"A", "B"} :
            /\ Cardinality(DOMAIN results16[cond]) = Cardinality(KnownSeen(cond))
            /\ Cardinality(DOMAIN results17[cond]) = Cardinality(KnownSeen(cond))
            /\ \A i, j \in KnownSeen(cond) : i # j => KeyOf(rseen[i]) # KeyOf(rseen[j])
            /\ \A k \in DOMAIN results16[cond] \cup DOMAIN results17[cond] :
                  \E i \in KnownSeen(cond) : KeyOf(rseen[i]) = k

\* The part of C28 about files with an unknown task id
C28_UnknownContributesNothing ==
    \A cond \in {"A", "B"} :
        /\ DOMAIN results16[cond] = {KeyOf(rseen[i]) : i \in KnownSeen(cond)}
        /\ DOMAIN results17[cond] = DOMAIN results16[cond]


====
